---- MODULE Spec2Model ----
(***************************************************************************)
(* Model of the dependency-resolving node-graph migration engine:          *)
(*   - the node creator (universal_node_creator.py): type filter,          *)
(*     dependency analysis and the round-based creation scheduler;         *)
(*   - the dependency resolver and classifier                              *)
(*     (universal_subgraph_migration.py);                                  *)
(*   - the reference remapper (universal_metadata_updater.py).             *)
(* Each component has its own specification over the shared variables.     *)
(***************************************************************************)
EXTENDS Integers, Sequences, FiniteSets, TLC

(***************************************************************************)
(* Bounds of the model.                                                    *)
(***************************************************************************)
\* at most this many distinct nodes are referenced by one exported node
MaxRefs == 2

\* the ids of the nodes found in the export files
NodeIds == {"n1", "n2", "n3"}

\* the order in which the nodes appear in the export files
NodeOrder == <<"n1", "n2", "n3">>

\* the raw nodeType values the export files carry in the model
RawTypeList == <<"32", "36", "205", "Source", "Stage">>

RawTypes == {RawTypeList[i] : i \in DOMAIN RawTypeList}

TypeRank(t) == CHOOSE i \in DOMAIN RawTypeList : RawTypeList[i] = t

\* the resolver is run with max_depth in 1..MaxDepth
MaxDepth == 2

\* the source workspace holds at most this many references (column references
\* plus sourceMapping aliases) in all
MaxEdges == 2

\* the node ids of the source workspace: three of UUID shape and one short
\* numeric id
WsIds == {"u1", "u2", "u3", "s1"}

\* the type of each node of the source workspace in the model
ws_type(id) ==
    CASE id = "u1" -> "Hub"
      [] id = "u2" -> "Stage"
      [] id = "u3" -> "Source"
      [] OTHER -> "Hub"

(***************************************************************************)
(* Program constants.                                                      *)
(***************************************************************************)
\* max_rounds = len(all_nodes) + 10
RoundSlack == 10

\* at most this many column references in a source of a column
MaxColRefs == 2

\* the numbers of columns of a node and of sources of a column
ColumnCounts == {0, 1, 2}
SourceCounts == {0, 1}

\* at most this many members in the original composition of a subgraph
MaxMembers == 2

\* at most this many steps in the subgraph of the target workspace
MaxLive == 2

\* Python's None, also the value of dict.get for a missing key
None == "<None>"

\* the node ids a column reference can hold: missing, or an original id
RefNodeIds == {None, "a", "b"}

\* the column ids a column reference can hold: empty, or an id
RefColumnIds == {"", "c1"}

\* the new ids a mapping can hold; "b" is an original id as well
NewIds == {"b", "t"}

\* the calls of _get_node_details in one sequence
MaxCalls == 4

\* workspace ids and node ids, some with the separator of the cache key in them
FetchWorkspaces == {"w", "w_x"}
FetchNodeIds == {"a", "x_a", "b"}

VARIABLES
    \* ---- node creator (EnhancedNodeCreator) ----
    all_nodes,        \* node id -> [nodeType, refs]: load_and_consolidate_data
    dry_run,          \* migration_config['dry_run']
    filtered_nodes,   \* ids included by filter_nodes_by_type
    excluded_nodes,   \* ids excluded by filter_nodes_by_type
    dependencies,     \* node id -> set of ids: analyze_dependencies
    node_id_mapping,  \* self.node_id_mapping: original id -> new id
    created_nodes,    \* self.created_nodes (original ids, in append order)
    creation_errors,  \* self.creation_errors ([original_id, type], in order)
    remaining_nodes,  \* local of create_nodes_in_dependency_order
    ready_nodes,      \* ready nodes of the round not yet iterated
    creation_rounds,  \* local round counter
    round_success,    \* successes of the current round
    created_count,    \* return value of create_nodes_in_dependency_order
    forced_round,     \* TRUE when the current round's ready list is the forced one
    api_calls,        \* history: node id -> [predecessor_ids, outcome, forced]
    post_calls,       \* history: node id -> POST requests made for it
    put_calls,        \* history: node id -> PUT requests made for its new node
    cpc,              \* position in run_enhanced_creation
    \* ---- dependency resolver (EnhancedSubgraphMigration) ----
    remote,           \* the source workspace as far as it has been read: id -> response
    node_cache,       \* self.node_cache: id -> node_info
    failed_node_downloads, \* self.failed_node_downloads: id -> number of entries
    initial_nodes,    \* parameter of _resolve_all_dependencies
    max_depth,        \* parameter of _resolve_all_dependencies
    all_discovered_nodes,
    processed_nodes,
    current_depth,
    api_migratable,   \* outputs of _categorize_dependencies
    manual_required,
    failed_analysis,
    stopped_by,       \* how the discovery loop ended
    expand_count,     \* history: id -> loop iterations spent on it in this run
    rounds_run,       \* history: rounds of the discovery loop in this run
    run_no,           \* 1 or 2: the resolver is run twice on the same instance
    first_discovered, \* the discovered set the first run returned
    rpc,              \* position in _resolve_all_dependencies
    \* ---- metadata updater (UniversalNodeMetadataUpdater) ----
    original_node_data, \* parameter of build_proper_metadata: [columns]
    update_mapping,   \* parameter node_id_mapping of build_proper_metadata
    proper_metadata,  \* return value of build_proper_metadata
    target_source_mapping, \* the sourceMapping the target workspace holds for the new node
    put_sent,         \* update_node_metadata has sent its PUT
    update_result,    \* return value of update_node_metadata ("none" before it returns)
    update_report,    \* the entry update_node_metadata appended to its result lists
    proper_metadata_again, \* build_proper_metadata of its own output
    upc,              \* position in update_node_metadata
    \* ---- subgraph composer (update_subgraph.py) ----
    original_nodes,   \* composition['original_nodes']: list of ids as loaded from the file
    sg_node_id_mapping, \* node_id_mapping of update_subgraph.main: key -> new id
    node_references,  \* composition.get('node_references'): key -> id
    target_steps,     \* the steps of the subgraph in the target workspace
    current_steps,    \* local of main: what get_subgraph_steps returned
    sg_all_nodes,     \* local of main: first result of map_and_preserve_all_nodes
    unmapped_count,   \* local of main: second result of map_and_preserve_all_nodes
    merged_steps,     \* local of main: the member list passed to update_subgraph
    updated_id,       \* TRUE when update_subgraph returned the subgraph id
    first_merged,     \* history: merged_steps of the previous run
    sg_run,           \* number of runs of the loop body for the subgraph
    spc,              \* position in update_subgraph.main
    \* ---- the stages after the creator (metadata updater run, metadata hack) ----
    updated_nodes,    \* created nodes update_all_nodes has iterated over
    all_target_nodes, \* self.all_target_nodes of the hack
    hacked_nodes,     \* nodes batch_hack_all_nodes has iterated over
    ppc,              \* position in the pipeline
    \* ---- a sequence of _get_node_details calls (EnhancedSubgraphMigration) ----
    fetch_workspace,  \* the workspace_id run_migration passes to every call
    key_cache,        \* self.node_cache as the code keys it: cache_key -> node_info
    fetch_failures,   \* self.failed_node_downloads: the node ids appended, in order
    first_fetched,    \* history: <<workspace, id>> -> what its first successful fetch returned
    read_again,       \* history: a pair fetched successfully was read remotely again
    last_call,        \* history: the last call, its return value and where it came from
    calls_made,       \* history: number of calls so far
    \* ---- the remote calls of a run, one after the other ----
    calls_to_make,    \* the remote calls the run still has to make
    pending_call,     \* the call the run is blocked in, or NoRemoteCall
    remote_stalled,   \* the remote side never answers the pending call
    call_results,     \* how the calls made so far ended, in order
    \* ---- the migration runner (run_migration.py) ----
    cfg_dry_run,      \* config['dry_run']
    cfg_target_id,    \* a configured subgraph has a target_id other than 'TBD'
    export_files,     \* files matching subgraph_*.json (no migration results) exist
    creation_file,    \* the ids in the latest *created_nodes*.json: "none", "real", "fabricated"
    phases_run,       \* history: the phases started, in order
    phases_failed,    \* history: the phases that failed logically
    target_calls,     \* history: the POST and PUT calls made to the target workspace
    runner_result,    \* return value of main ("running" before it returns)
    rnpc              \* position in main

creatorVars == <<all_nodes, dry_run, filtered_nodes, excluded_nodes, dependencies,
                 node_id_mapping, created_nodes, creation_errors, remaining_nodes,
                 ready_nodes, creation_rounds, round_success, created_count,
                 forced_round, api_calls, post_calls, put_calls, cpc>>

resolverVars == <<remote, node_cache, failed_node_downloads, initial_nodes, max_depth,
                  all_discovered_nodes, processed_nodes, current_depth, api_migratable,
                  manual_required, failed_analysis, stopped_by, expand_count,
                  rounds_run, run_no, first_discovered, rpc>>

updaterVars == <<original_node_data, update_mapping, proper_metadata,
                 target_source_mapping, put_sent, update_result, update_report,
                 proper_metadata_again, upc>>

composerVars == <<original_nodes, sg_node_id_mapping, node_references, target_steps,
                  current_steps, sg_all_nodes, unmapped_count, merged_steps, updated_id,
                  first_merged, sg_run, spc>>

pipelineVars == <<updated_nodes, all_target_nodes, hacked_nodes, ppc>>

fetchVars == <<fetch_workspace, key_cache, fetch_failures, first_fetched, read_again,
               last_call, calls_made>>

callVars == <<calls_to_make, pending_call, remote_stalled, call_results>>

runnerVars == <<cfg_dry_run, cfg_target_id, export_files, creation_file, phases_run,
                phases_failed, target_calls, runner_result, rnpc>>

\* the variables of the components modelled on their own
otherVars == <<fetchVars, callVars, runnerVars>>

vars == <<creatorVars, resolverVars, updaterVars, composerVars, pipelineVars, otherVars>>

(***************************************************************************)
(* Helpers.                                                                *)
(***************************************************************************)
EmptyMap == [x \in {} |-> x]

\* an assignment that starts the map afresh
MapReset(m, k, v) == [x \in {k} |-> v]

MapPut(m, k, v) == [x \in DOMAIN m \cup {k} |-> IF x = k THEN v ELSE m[x]]

Range(s) == {s[i] : i \in DOMAIN s}

(***************************************************************************)
(* filter_nodes_by_type                                                    *)
(***************************************************************************)
node_type_mapping ==
    [t \in {"30", "31", "32", "33", "34", "35", "36", "37", "50", "51", "205",
            "206", "BaseNodes:::205", "Source", "Stage", "View"} |->
        CASE t = "30" -> "Satellite"
          [] t = "31" -> "Satellite"
          [] t = "32" -> "Hub"
          [] t = "33" -> "Link"
          [] t = "34" -> "Dimension"
          [] t = "35" -> "Fact"
          [] t = "36" -> "Stage"
          [] t = "37" -> "View"
          [] t = "50" -> "Hub_Advanced"
          [] t = "51" -> "Link_Advanced"
          [] t = "205" -> "Source"
          [] t = "206" -> "BaseNodes"
          [] t = "BaseNodes:::205" -> "BaseNodes"
          [] t = "Source" -> "Source"
          [] t = "Stage" -> "Stage"
          [] t = "View" -> "View"]

allowed_types == {"Satellite", "Hub", "Link", "Hub_Advanced", "Link_Advanced",
                  "View", "BaseNodes", "Dimension", "Fact"}

normalized_type(raw_node_type) ==
    IF raw_node_type \in DOMAIN node_type_mapping
    THEN node_type_mapping[raw_node_type]
    ELSE raw_node_type

is_included(raw_node_type) == normalized_type(raw_node_type) \in allowed_types

\* a filter that tests the raw nodeType, forgetting the normalisation
filter_nodes_by_raw_type(nodes) ==
    [included |-> {n \in DOMAIN nodes : nodes[n].nodeType \in allowed_types},
     excluded |-> {n \in DOMAIN nodes : nodes[n].nodeType \notin allowed_types}]

filter_nodes_by_type(nodes) ==
    [included |-> {n \in DOMAIN nodes : is_included(nodes[n].nodeType)},
     excluded |-> {n \in DOMAIN nodes : ~is_included(nodes[n].nodeType)}]

(***************************************************************************)
(* analyze_dependencies                                                    *)
(***************************************************************************)
\* the column references of a node other than to itself, kept when the
\* referenced node is among the nodes handed in
analyze_dependencies(nodes, ids) ==
    [n \in ids |-> {p \in nodes[n].refs : p # n /\ p \in ids}]

(***************************************************************************)
(* create_node_via_api                                                     *)
(***************************************************************************)
\* what the two remote calls of one creation can do
Outcomes == {"post_fail", "post_exception", "no_id", "hash_ok", "cleaned_ok",
             "cleaned_fail", "put_exception"}

\* the outcome of the dry-run branch
DryOutcome == "dry_run"

\* the platform-assigned id of the node created for original id n
new_node_id(n) == <<"tgt", n>>

\* fake_new_id = f"new_{len(self.node_id_mapping) + 1:03d}"
fake_new_id(mapping) == <<"new", Cardinality(DOMAIN mapping) + 1>>

\* outcomes after which self.node_id_mapping[node_id] has been written
writes_mapping(o) == o \in {"hash_ok", "cleaned_ok", "cleaned_fail", "put_exception"}

\* outcomes that append to self.creation_errors
appends_error(o) == o \in {"post_fail", "post_exception", "cleaned_fail", "put_exception"}

error_type(o) ==
    CASE o = "post_fail" -> "node_creation"
      [] o = "cleaned_fail" -> "cleaned_config_update"
      [] OTHER -> "exception"

\* outcomes that append to self.created_nodes
appends_created(o) == o \in {"hash_ok", "cleaned_ok", "cleaned_fail"}

\* the number of requests.post calls of one creation: none in a dry run
creator_post_calls(o) == IF o = DryOutcome THEN 0 ELSE 1

\* The numbers of requests.put calls one creation can make (self.test_hash_keys
\* is True): the hash-key payload, then the cleaned payload when the first is
\* refused; an exception is raised before, by or after either call.
creator_put_calls(o) ==
    CASE o = "hash_ok" -> {1}
      [] o \in {"cleaned_ok", "cleaned_fail"} -> {2}
      [] o = "put_exception" -> {0, 1, 2}
      [] OTHER -> {0}

\* the calls counted so far for a node
calls_of(counts, n) == IF n \in DOMAIN counts THEN counts[n] ELSE 0

\* outcomes whose return value is truthy (new_node_data or the dry-run dict)
returns_result(o) == o \in {"hash_ok", "cleaned_ok", "cleaned_fail", "dry_run"}

create_node_via_api(n, o) ==
    /\ node_id_mapping' =
         IF o = DryOutcome THEN MapPut(node_id_mapping, n, fake_new_id(node_id_mapping))
         ELSE IF writes_mapping(o) THEN MapPut(node_id_mapping, n, new_node_id(n))
         ELSE node_id_mapping
    /\ creation_errors' =
         IF appends_error(o)
         THEN Append(creation_errors, [original_id |-> n, type |-> error_type(o)])
         ELSE creation_errors
    /\ created_nodes' =
         IF appends_created(o) THEN Append(created_nodes, n) ELSE created_nodes

(***************************************************************************)
(* create_nodes_in_dependency_order                                        *)
(***************************************************************************)
unsatisfied_deps(n) == {d \in dependencies[n] : d \notin DOMAIN node_id_mapping}

mapped_deps(n) ==
    {node_id_mapping[d] : d \in {x \in dependencies[n] : x \in DOMAIN node_id_mapping}}

max_rounds == Cardinality(filtered_nodes) + RoundSlack

\* a readiness test that ignores the dependencies
nodes_ignoring_deps == remaining_nodes

nodes_without_unsatisfied == {n \in remaining_nodes : unsatisfied_deps(n) = {}}

\* a forced round that takes every remaining node
nodes_with_any_deps == remaining_nodes

\* a forced round that takes no node
nodes_with_no_deps == {}

min_deps ==
    CHOOSE k \in 0..Cardinality(NodeIds) :
        /\ \E n \in remaining_nodes : Cardinality(unsatisfied_deps(n)) = k
        /\ \A n \in remaining_nodes : Cardinality(unsatisfied_deps(n)) >= k

nodes_with_min_deps ==
    {n \in remaining_nodes : Cardinality(unsatisfied_deps(n)) = min_deps}

(***************************************************************************)
(* Actions of the node creator.                                            *)
(***************************************************************************)
\* run_enhanced_creation, steps 3 and 4
FilterAndAnalyze ==
    /\ UNCHANGED <<resolverVars, updaterVars, composerVars, pipelineVars, otherVars>>
    /\ cpc = "loaded"
    /\ LET f == filter_nodes_by_type(all_nodes) IN
        /\ filtered_nodes' = f.included
        /\ excluded_nodes' = f.excluded
        /\ IF f.included = {}
           THEN /\ cpc' = "failed"
                /\ UNCHANGED <<dependencies, remaining_nodes>>
           ELSE /\ dependencies' = analyze_dependencies(all_nodes, f.included)
                /\ remaining_nodes' = f.included
                /\ cpc' = "loop"
    /\ UNCHANGED <<all_nodes, dry_run, node_id_mapping, created_nodes, creation_errors,
                   ready_nodes, creation_rounds, round_success, created_count,
                   forced_round, api_calls, post_calls, put_calls>>

\* one pass of the while condition and the selection of the round's nodes
RoundStart ==
    /\ UNCHANGED <<resolverVars, updaterVars, composerVars, pipelineVars, otherVars>>
    /\ cpc = "loop"
    /\ remaining_nodes # {}
    /\ creation_rounds < max_rounds
    /\ creation_rounds' = creation_rounds + 1
    /\ IF nodes_without_unsatisfied # {}
       THEN ready_nodes' = nodes_without_unsatisfied /\ forced_round' = FALSE
       ELSE ready_nodes' = nodes_with_min_deps /\ forced_round' = TRUE
    /\ round_success' = 0
    /\ cpc' = "create"
    /\ UNCHANGED <<all_nodes, dry_run, filtered_nodes, excluded_nodes, dependencies,
                   node_id_mapping, created_nodes, creation_errors, remaining_nodes,
                   created_count, api_calls, post_calls,
                   put_calls>>

\* one iteration of "for node_id in ready_nodes"
CreateNode ==
    /\ UNCHANGED <<resolverVars, updaterVars, composerVars, pipelineVars, otherVars>>
    /\ cpc = "create"
    /\ \E n \in ready_nodes :
       \E o \in (IF dry_run THEN {DryOutcome} ELSE Outcomes) :
        /\ create_node_via_api(n, o)
        /\ post_calls' = MapPut(post_calls, n, calls_of(post_calls, n) + creator_post_calls(o))
        /\ \E k \in creator_put_calls(o) :
               put_calls' = MapPut(put_calls, n, calls_of(put_calls, n) + k)
        /\ api_calls' = MapPut(api_calls, n,
                               [predecessor_ids |-> mapped_deps(n),
                                outcome |-> o,
                                forced |-> forced_round])
        /\ created_count' = IF returns_result(o) THEN created_count + 1 ELSE created_count
        /\ round_success' = IF returns_result(o) THEN round_success + 1 ELSE round_success
        /\ remaining_nodes' = remaining_nodes \ {n}
        /\ ready_nodes' = ready_nodes \ {n}
    /\ UNCHANGED <<all_nodes, dry_run, filtered_nodes, excluded_nodes, dependencies,
                   creation_rounds, forced_round, cpc>>

\* the end of a round: "if round_success == 0 and remaining_nodes: break"
RoundEnd ==
    /\ UNCHANGED <<resolverVars, updaterVars, composerVars, pipelineVars, otherVars>>
    /\ cpc = "create"
    /\ ready_nodes = {}
    /\ cpc' = IF round_success = 0 /\ remaining_nodes # {} THEN "done" ELSE "loop"
    /\ UNCHANGED <<all_nodes, dry_run, filtered_nodes, excluded_nodes, dependencies,
                   node_id_mapping, created_nodes, creation_errors, remaining_nodes,
                   ready_nodes, creation_rounds, round_success, created_count,
                   forced_round, api_calls, post_calls, put_calls>>

\* the while condition is false: create_nodes_in_dependency_order returns
LoopExit ==
    /\ UNCHANGED <<resolverVars, updaterVars, composerVars, pipelineVars, otherVars>>
    /\ cpc = "loop"
    /\ ~(remaining_nodes # {} /\ creation_rounds < max_rounds)
    /\ cpc' = "done"
    /\ UNCHANGED <<all_nodes, dry_run, filtered_nodes, excluded_nodes, dependencies,
                   node_id_mapping, created_nodes, creation_errors, remaining_nodes,
                   ready_nodes, creation_rounds, round_success, created_count,
                   forced_round, api_calls, post_calls, put_calls>>

\* the composer before any subgraph is loaded
ComposerIdle ==
    /\ original_nodes = <<>>
    /\ sg_node_id_mapping = EmptyMap
    /\ node_references = EmptyMap
    /\ target_steps = <<>>
    /\ current_steps = <<>>
    /\ sg_all_nodes = <<>>
    /\ unmapped_count = 0
    /\ merged_steps = <<>>
    /\ updated_id = FALSE
    /\ first_merged = <<>>
    /\ sg_run = 0
    /\ spc = "idle"

\* the stages after the creator before the pipeline is run
PipelineIdle ==
    /\ updated_nodes = {}
    /\ all_target_nodes = {}
    /\ hacked_nodes = {}
    /\ ppc = "idle"

\* no call of _get_node_details yet
NoCall == [workspace |-> "", node_id |-> "", returned |-> [ok |-> FALSE, type |-> ""],
           from_cache |-> FALSE]

\* the fetch sequence before its run
FetchIdle ==
    /\ fetch_workspace = ""
    /\ key_cache = EmptyMap
    /\ fetch_failures = <<>>
    /\ first_fetched = EmptyMap
    /\ read_again = FALSE
    /\ last_call = NoCall
    /\ calls_made = 0

\* no remote call is being made
NoRemoteCall == "none"

\* the remote calls before a run
CallsIdle ==
    /\ calls_to_make = <<>>
    /\ pending_call = NoRemoteCall
    /\ remote_stalled = FALSE
    /\ call_results = <<>>

\* the runner before it is started
RunnerIdle ==
    /\ cfg_dry_run = TRUE
    /\ cfg_target_id = FALSE
    /\ export_files = FALSE
    /\ creation_file = "none"
    /\ phases_run = <<>>
    /\ phases_failed = {}
    /\ target_calls = {}
    /\ runner_result = "running"
    /\ rnpc = "idle"

\* the components modelled on their own before their runs
OthersIdle == FetchIdle /\ CallsIdle /\ RunnerIdle

\* no entry appended to update_successes, update_errors or failed_updates
NoReport == [list |-> "none"]

\* the updater before any call
UpdaterIdle ==
    /\ original_node_data = [columns |-> <<>>, sourceMapping |-> <<>>]
    /\ update_mapping = EmptyMap
    /\ proper_metadata = [is_none |-> TRUE, columns |-> <<>>, sourceMapping |-> <<>>]
    /\ target_source_mapping = <<>>
    /\ put_sent = FALSE
    /\ update_result = "none"
    /\ update_report = NoReport
    /\ proper_metadata_again = [is_none |-> TRUE, columns |-> <<>>, sourceMapping |-> <<>>]
    /\ upc = "idle"

\* the resolver before any run
ResolverIdle ==
    /\ remote = EmptyMap
    /\ node_cache = EmptyMap
    /\ failed_node_downloads = EmptyMap
    /\ initial_nodes = {}
    /\ max_depth = 0
    /\ all_discovered_nodes = {}
    /\ processed_nodes = {}
    /\ current_depth = 0
    /\ api_migratable = {}
    /\ manual_required = {}
    /\ failed_analysis = {}
    /\ stopped_by = "running"
    /\ expand_count = EmptyMap
    /\ rounds_run = 0
    /\ run_no = 0
    /\ first_discovered = {}
    /\ rpc = "idle"

NodeData == [nodeType : RawTypes,
             refs : {r \in SUBSET NodeIds : Cardinality(r) <= MaxRefs}]

\* Every graph over NodeIds is drawn; the node ids are interchangeable, so of
\* the assignments of types to ids that differ only by a renaming of the ids
\* one is kept (types non-decreasing along NodeOrder).
TypesOrdered(nodes) ==
    \A i, j \in DOMAIN NodeOrder :
        i < j => TypeRank(nodes[NodeOrder[i]].nodeType) <= TypeRank(nodes[NodeOrder[j]].nodeType)

InitCreator ==
    /\ all_nodes \in {f \in [NodeIds -> NodeData] : TypesOrdered(f)}
    /\ dry_run \in BOOLEAN
    /\ filtered_nodes = {}
    /\ excluded_nodes = {}
    /\ dependencies = EmptyMap
    /\ node_id_mapping = EmptyMap
    /\ created_nodes = <<>>
    /\ creation_errors = <<>>
    /\ remaining_nodes = {}
    /\ ready_nodes = {}
    /\ creation_rounds = 0
    /\ round_success = 0
    /\ created_count = 0
    /\ forced_round = FALSE
    /\ api_calls = EmptyMap
    /\ post_calls = EmptyMap
    /\ put_calls = EmptyMap
    /\ cpc = "loaded"
    /\ ResolverIdle
    /\ UpdaterIdle
    /\ ComposerIdle
    /\ PipelineIdle
    /\ OthersIdle

NextCreator == FilterAndAnalyze \/ RoundStart \/ CreateNode \/ RoundEnd \/ LoopExit

SpecCreator == InitCreator /\ [][NextCreator]_vars

(***************************************************************************)
(* The dependency analysis alone, on exported nodes that carry             *)
(* source-mapping aliases besides their column references.                 *)
(***************************************************************************)
\* the raw types of the analysis: a Hub (migratable) and a Stage (excluded)
AnalysisTypes == {"32", "36"}

NodeDataWithAliases ==
    [nodeType : AnalysisTypes,
     refs : {r \in SUBSET NodeIds : Cardinality(r) <= MaxRefs},
     aliases : {a \in SUBSET NodeIds : Cardinality(a) <= 1}]

InitAnalysis ==
    /\ all_nodes \in [NodeIds -> NodeDataWithAliases]
    /\ dry_run = TRUE
    /\ filtered_nodes = {}
    /\ excluded_nodes = {}
    /\ dependencies = EmptyMap
    /\ node_id_mapping = EmptyMap
    /\ created_nodes = <<>>
    /\ creation_errors = <<>>
    /\ remaining_nodes = {}
    /\ ready_nodes = {}
    /\ creation_rounds = 0
    /\ round_success = 0
    /\ created_count = 0
    /\ forced_round = FALSE
    /\ api_calls = EmptyMap
    /\ post_calls = EmptyMap
    /\ put_calls = EmptyMap
    /\ cpc = "loaded"
    /\ ResolverIdle
    /\ UpdaterIdle
    /\ ComposerIdle
    /\ PipelineIdle
    /\ OthersIdle

NextAnalysis == FilterAndAnalyze

SpecAnalysis == InitAnalysis /\ [][NextAnalysis]_vars

(***************************************************************************)
(* The dependency resolver: universal_subgraph_migration.py                *)
(***************************************************************************)
\* the node creator before any run
CreatorIdle ==
    /\ all_nodes = EmptyMap
    /\ dry_run = TRUE
    /\ filtered_nodes = {}
    /\ excluded_nodes = {}
    /\ dependencies = EmptyMap
    /\ node_id_mapping = EmptyMap
    /\ created_nodes = <<>>
    /\ creation_errors = <<>>
    /\ remaining_nodes = {}
    /\ ready_nodes = {}
    /\ creation_rounds = 0
    /\ round_success = 0
    /\ created_count = 0
    /\ forced_round = FALSE
    /\ api_calls = EmptyMap
    /\ post_calls = EmptyMap
    /\ put_calls = EmptyMap
    /\ cpc = "idle"

\* len(str(node_id))
id_len(id) == IF id \in {"u1", "u2", "u3"} THEN 36 ELSE 5

\* '-' in str(node_id)
has_dash(id) == id \in {"u1", "u2", "u3"}

\* '.' in str(node_id)
has_dot(id) == FALSE

\* the test of _extract_dependencies_from_node: '-' in node_id and len(node_id) > 30
looks_like_uuid(id) == has_dash(id) /\ id_len(id) > 30

\* the test of _categorize_dependencies:
\* '.' in str(node_id) or not '-' in str(node_id) or len(str(node_id)) < 30
skipped_as_non_uuid(id) == has_dot(id) \/ ~has_dash(id) \/ id_len(id) < 30

\* node_data.get('type', '').lower()
type_lower(t) ==
    CASE t = "Hub" -> "hub"
      [] t = "Source" -> "source"
      [] t = "Stage" -> "stage"
      [] OTHER -> t

\* word in node_type, for the lower-case types of the model: neither 'raw'
\* nor 'src_' occurs in "hub", "source" or "stage"
contains_word(node_type, word) == FALSE

\* a response that is not a node: a non-200 status or a transport exception;
\* also the None that _get_node_details returns for it
NoNode == [ok |-> FALSE, type |-> "", col_refs |-> {}, alias_ids |-> {}]

\* the node_info of a 200 response: its type, the nodeIDs of its column
\* references and the values of its sourceMapping aliases
node_info(id, edges) ==
    [ok |-> TRUE, type |-> ws_type(id),
     col_refs |-> {e.to : e \in {x \in edges : x.from = id /\ x.kind = "column"}},
     alias_ids |-> {e.to : e \in {x \in edges : x.from = id /\ x.kind = "alias"}}]

\* the references a workspace can hold: from a node of UUID shape (the node
\* with the short id holds none) to any id, as a column reference or an alias
AllEdges == [from : WsIds \ {"s1"}, kind : {"column", "alias"}, to : WsIds]

RECURSIVE EdgeSetsUpTo(_)
EdgeSetsUpTo(k) ==
    IF k = 0 THEN {{}}
    ELSE LET smaller == EdgeSetsUpTo(k - 1) IN
         smaller \cup {es \cup {e} : es \in smaller, e \in AllEdges}

\* the sets of at most MaxEdges references, by the set of nodes they start from
EdgeSetsFrom ==
    LET all == EdgeSetsUpTo(MaxEdges) IN
    [from \in SUBSET WsIds |-> {es \in all : \A e \in es : e.from \in from}]

\* the references of the part of the workspace read so far
edges_read(snap) ==
    UNION {{[from |-> id, kind |-> "column", to |-> t] : t \in snap[id].col_refs}
           \cup {[from |-> id, kind |-> "alias", to |-> t] : t \in snap[id].alias_ids} :
           id \in DOMAIN snap}

\* the secondary cache test gone wrong: a cached node is reported as missing
get_node_details_miss_on_hit(cache, snap, id) ==
    IF id \in DOMAIN cache THEN NoNode
    ELSE IF snap[id].ok THEN snap[id]
    ELSE NoNode

\* the value _get_node_details returns for id, with the workspace answering snap
get_node_details(cache, snap, id) ==
    IF id \in DOMAIN cache THEN cache[id]
    ELSE IF snap[id].ok THEN snap[id]
    ELSE NoNode

\* the calls among ids that read the workspace
remote_reads(cache, ids) == ids \ DOMAIN cache

\* self.node_cache after _get_node_details was called for each of ids
cache_after(cache, snap, ids) ==
    [id \in DOMAIN cache \cup {x \in remote_reads(cache, ids) : snap[x].ok} |->
        IF id \in DOMAIN cache THEN cache[id] ELSE snap[id]]

\* a fetch that returns no node without recording why
failures_not_recorded(failed, cache, snap, ids) == failed

\* self.failed_node_downloads after _get_node_details was called for each of ids
failures_after(failed, cache, snap, ids) ==
    LET new == {x \in remote_reads(cache, ids) : ~snap[x].ok} IN
    [id \in DOMAIN failed \cup new |->
        (IF id \in DOMAIN failed THEN failed[id] ELSE 0) + (IF id \in new THEN 1 ELSE 0)]

\* an extraction that forgets the sourceMapping aliases
extract_column_references_only(node_data) ==
    IF ~node_data.ok THEN {}
    ELSE {id \in node_data.col_refs : looks_like_uuid(id)}

_extract_dependencies_from_node(node_data) ==
    IF ~node_data.ok THEN {}
    ELSE {id \in node_data.col_refs : looks_like_uuid(id)}
         \cup {id \in node_data.alias_ids : looks_like_uuid(id)}

\* a pending set that forgets to leave out the processed nodes
nodes_to_process_again == all_discovered_nodes

\* nodes_to_process = all_discovered_nodes - processed_nodes
nodes_to_process == all_discovered_nodes \ processed_nodes

\* the workspace as known after the nodes ids have been read as well: what was
\* read before answers the same, the others answer anything
Snapshots(ids) ==
    LET new == ids \ DOMAIN remote
        budget == MaxEdges - Cardinality(edges_read(remote))
    IN  {[id \in DOMAIN remote \cup ids |->
            IF id \in DOMAIN remote THEN remote[id]
            ELSE IF id \in failing THEN NoNode
            ELSE node_info(id, es)] :
         failing \in SUBSET new,
         es \in {x \in EdgeSetsFrom[new] : Cardinality(x) <= budget}}

\* the condition under which _categorize_dependencies lists a node as manual
is_manual_required(node_data) ==
    /\ type_lower(node_data.type) \in {"source", "stage"}
    /\ \E word \in {"raw", "src_"} : contains_word(type_lower(node_data.type), word)

\* one round of the while loop of _resolve_all_dependencies
ResolveRound ==
    /\ UNCHANGED <<creatorVars, updaterVars, composerVars, pipelineVars, otherVars>>
    /\ rpc = "resolve"
    /\ current_depth < max_depth
    /\ nodes_to_process # {}
    /\ \E snap \in Snapshots(remote_reads(node_cache, nodes_to_process)) :
        LET new_dependencies ==
                UNION {_extract_dependencies_from_node(get_node_details(node_cache, snap, id)) :
                         id \in nodes_to_process}
        IN  /\ remote' = snap
            /\ node_cache' = cache_after(node_cache, snap, nodes_to_process)
            /\ failed_node_downloads' =
                 failures_after(failed_node_downloads, node_cache, snap, nodes_to_process)
            /\ processed_nodes' = processed_nodes \cup nodes_to_process
            /\ expand_count' =
                 [id \in DOMAIN expand_count \cup nodes_to_process |->
                    (IF id \in DOMAIN expand_count THEN expand_count[id] ELSE 0)
                    + (IF id \in nodes_to_process THEN 1 ELSE 0)]
            /\ rounds_run' = rounds_run + 1
            /\ IF new_dependencies # {}
               THEN /\ all_discovered_nodes' = all_discovered_nodes \cup new_dependencies
                    /\ current_depth' = current_depth + 1
                    /\ UNCHANGED <<stopped_by, rpc>>
               ELSE /\ stopped_by' = "no_new_dependencies"
                    /\ rpc' = "categorize"
                    /\ UNCHANGED <<all_discovered_nodes, current_depth>>
    /\ UNCHANGED <<initial_nodes, max_depth, api_migratable, manual_required,
                   failed_analysis, run_no, first_discovered>>

\* the loop ends at its head: nothing is pending, or the depth bound is reached
ResolveStop ==
    /\ UNCHANGED <<creatorVars, updaterVars, composerVars, pipelineVars, otherVars>>
    /\ rpc = "resolve"
    /\ current_depth >= max_depth \/ nodes_to_process = {}
    /\ stopped_by' = IF current_depth < max_depth THEN "nothing_pending" ELSE "depth_bound"
    /\ rpc' = "categorize"
    /\ UNCHANGED <<remote, node_cache, failed_node_downloads, initial_nodes, max_depth,
                   all_discovered_nodes, processed_nodes, current_depth, api_migratable,
                   manual_required, failed_analysis, expand_count, rounds_run, run_no,
                   first_discovered>>

\* _categorize_dependencies on the discovered set, and the return
Categorize ==
    /\ UNCHANGED <<creatorVars, updaterVars, composerVars, pipelineVars, otherVars>>
    /\ rpc = "categorize"
    /\ LET considered == {id \in all_discovered_nodes : ~skipped_as_non_uuid(id)} IN
       \E snap \in Snapshots(remote_reads(node_cache, considered)) :
        LET details(id) == get_node_details(node_cache, snap, id) IN
        /\ remote' = snap
        /\ node_cache' = cache_after(node_cache, snap, considered)
        /\ failed_node_downloads' =
             failures_after(failed_node_downloads, node_cache, snap, considered)
        /\ failed_analysis' = {id \in considered : ~details(id).ok}
        /\ manual_required' =
             {[node_id |-> id, type |-> type_lower(details(id).type)] :
                id \in {x \in considered : details(x).ok /\ is_manual_required(details(x))}}
        /\ api_migratable' =
             {id \in considered : details(id).ok /\ ~is_manual_required(details(id))}
    /\ rpc' = "done"
    /\ UNCHANGED <<initial_nodes, max_depth, all_discovered_nodes, processed_nodes,
                   current_depth, stopped_by, expand_count, rounds_run, run_no,
                   first_discovered>>

\* _resolve_all_dependencies is called a second time on the same instance,
\* with the same seeds: the locals start afresh, the cache is kept
ResolveAgain ==
    /\ UNCHANGED <<creatorVars, updaterVars, composerVars, pipelineVars, otherVars>>
    /\ rpc = "done"
    /\ run_no = 1
    /\ run_no' = 2
    /\ first_discovered' = all_discovered_nodes
    /\ all_discovered_nodes' = initial_nodes
    /\ processed_nodes' = {}
    /\ current_depth' = 0
    /\ api_migratable' = {}
    /\ manual_required' = {}
    /\ failed_analysis' = {}
    /\ stopped_by' = "running"
    /\ expand_count' = EmptyMap
    /\ rounds_run' = 0
    /\ rpc' = "resolve"
    /\ UNCHANGED <<remote, node_cache, failed_node_downloads, initial_nodes, max_depth>>

InitResolver ==
    /\ CreatorIdle
    /\ UpdaterIdle
    /\ ComposerIdle
    /\ PipelineIdle
    /\ OthersIdle
    /\ remote = EmptyMap
    /\ node_cache = EmptyMap
    /\ failed_node_downloads = EmptyMap
    /\ initial_nodes \in (SUBSET WsIds) \ {{}}
    /\ max_depth \in 1..MaxDepth
    /\ all_discovered_nodes = initial_nodes
    /\ processed_nodes = {}
    /\ current_depth = 0
    /\ api_migratable = {}
    /\ manual_required = {}
    /\ failed_analysis = {}
    /\ stopped_by = "running"
    /\ expand_count = EmptyMap
    /\ rounds_run = 0
    /\ run_no = 1
    /\ first_discovered = {}
    /\ rpc = "resolve"

NextResolver == ResolveRound \/ ResolveStop \/ Categorize \/ ResolveAgain

SpecResolver == InitResolver /\ [][NextResolver]_vars

(***************************************************************************)
(* The metadata updater: build_proper_metadata on the columns (name, data   *)
(* type, nullability, default value), their sources (transform, column     *)
(* references) and the aliases of the sourceMapping, and                   *)
(* update_node_metadata, which sends the result.                           *)
(***************************************************************************)
\* the truth value Python gives a node id or a column id
truthy(v) == v # None /\ v # ""

\* a remapping that also takes a new id back to its original id
mapped_both_ways(mapping, original_node_id) ==
    IF original_node_id \in DOMAIN mapping THEN mapping[original_node_id]
    ELSE IF \E k \in DOMAIN mapping : mapping[k] = original_node_id
         THEN CHOOSE k \in DOMAIN mapping : mapping[k] = original_node_id
         ELSE original_node_id

\* a remapping that leaves every node id as it is
keep_original_node_id(mapping, original_node_id) == original_node_id

\* node_id_mapping.get(original_node_id, original_node_id)
mapped_node_id(mapping, original_node_id) ==
    IF original_node_id \in DOMAIN mapping THEN mapping[original_node_id]
    ELSE original_node_id

\* the loop over original_col_refs: proper_source['columnReferences']
RECURSIVE proper_column_references(_, _)
proper_column_references(original_col_refs, mapping) ==
    IF original_col_refs = <<>> THEN <<>>
    ELSE LET col_ref == Head(original_col_refs)
             rest == proper_column_references(Tail(original_col_refs), mapping)
         IN  IF truthy(col_ref.nodeID) /\ truthy(col_ref.columnID)
             THEN <<[nodeID |-> mapped_node_id(mapping, col_ref.nodeID),
                     columnID |-> col_ref.columnID]>> \o rest
             ELSE rest

\* a key that the dict does not have
Missing == "<missing>"

\* dict.get(key, default)
get_or(value, default) == IF value = Missing THEN default ELSE value

\* The values of a column's defaultValue, by Python type and text; NoKey is
\* the column that has no 'defaultValue' key.
NoKey == [kind |-> "missing", text |-> ""]
DefaultValues == {NoKey,
                  [kind |-> "none", text |-> "None"],
                  [kind |-> "str", text |-> ""],
                  [kind |-> "str", text |-> "x"],
                  [kind |-> "int", text |-> "0"],
                  [kind |-> "int", text |-> "5"],
                  [kind |-> "bool", text |-> "False"],
                  [kind |-> "dict", text |-> "{'a': 1}"]}

\* the truth value Python gives a default value
truthy_default(v) ==
    /\ v.kind \notin {"missing", "none"}
    /\ v \notin {[kind |-> "str", text |-> ""], [kind |-> "int", text |-> "0"],
                 [kind |-> "bool", text |-> "False"]}
    /\ v # [kind |-> "dict", text |-> "{}"]

\* isinstance(col['defaultValue'], (str, int, float, bool))
is_simple(v) == v.kind \in {"str", "int", "float", "bool"}

\* proper_col['defaultValue'] = str(col['defaultValue']), set only for a
\* default that is present, truthy and simple
proper_default(v) ==
    IF v # NoKey /\ truthy_default(v) /\ is_simple(v)
    THEN [kind |-> "str", text |-> v.text]
    ELSE NoKey

\* the loop over original_sources: proper_sources
proper_sources(original_sources, mapping) ==
    [j \in DOMAIN original_sources |->
        [transform |-> get_or(original_sources[j].transform, ""),
         columnReferences |->
            proper_column_references(original_sources[j].columnReferences, mapping)]]

\* proper_col: the key 'sources' is set only for a non-empty list of sources
proper_column(col, mapping) ==
    [name |-> get_or(col.name, "UNKNOWN_COLUMN"),
     dataType |-> get_or(col.dataType, "VARCHAR"),
     nullable |-> get_or(col.nullable, "True"),
     defaultValue |-> proper_default(col.defaultValue),
     has_sources |-> col.sources # <<>>,
     sources |-> IF col.sources # <<>> THEN proper_sources(col.sources, mapping) ELSE <<>>]

\* mapped_aliases: every alias name with the mapped id of its value
mapped_aliases(aliases, mapping) ==
    [alias_name \in DOMAIN aliases |-> mapped_node_id(mapping, aliases[alias_name])]

\* the loop over original_source_mapping: proper_source_mapping
proper_source_mapping(original_source_mapping, mapping) ==
    [i \in DOMAIN original_source_mapping |->
        [aliases |-> mapped_aliases(original_source_mapping[i].aliases, mapping)]]

\* the None that build_proper_metadata returns for a node without columns
NoMetadata == [is_none |-> TRUE, columns |-> <<>>, sourceMapping |-> <<>>]

\* the return value: None for a node without columns
build_proper_metadata(node_data, mapping) ==
    IF node_data.columns = <<>>
    THEN NoMetadata
    ELSE [is_none |-> FALSE,
          columns |-> [i \in DOMAIN node_data.columns |->
                         proper_column(node_data.columns[i], mapping)],
          sourceMapping |-> proper_source_mapping(node_data.sourceMapping, mapping)]

\* sequences over S of the lengths in lens
SeqsOf(S, lens) == UNION {[1..n -> S] : n \in lens}

ColumnReferences == [nodeID : RefNodeIds, columnID : RefColumnIds]

\* sources and columns that differ in their column references only
Sources == [transform : {""}, columnReferences : SeqsOf(ColumnReferences, 0..MaxColRefs)]

Columns == [name : {"C1"}, dataType : {"NUMBER"}, nullable : {"True"},
            defaultValue : {NoKey}, sources : SeqsOf(Sources, SourceCounts)]

\* the mappings: from some of the original ids to new ids
Mappings == UNION {[keys -> NewIds] : keys \in SUBSET (RefNodeIds \ {None})}

\* update_node_metadata builds the metadata of the node
BuildMetadata ==
    /\ UNCHANGED <<creatorVars, resolverVars, composerVars, pipelineVars, otherVars>>
    /\ upc = "called"
    /\ proper_metadata' = build_proper_metadata(original_node_data, update_mapping)
    /\ upc' = "built"
    /\ UNCHANGED <<original_node_data, update_mapping, target_source_mapping, put_sent,
                   update_result, update_report, proper_metadata_again>>

InitUpdater ==
    /\ CreatorIdle
    /\ ResolverIdle
    /\ ComposerIdle
    /\ PipelineIdle
    /\ OthersIdle
    /\ original_node_data \in [columns : SeqsOf(Columns, ColumnCounts), sourceMapping : {<<>>}]
    /\ update_mapping \in Mappings
    /\ proper_metadata = NoMetadata
    /\ target_source_mapping = <<>>
    /\ put_sent = FALSE
    /\ update_result = "none"
    /\ update_report = NoReport
    /\ proper_metadata_again = NoMetadata
    /\ upc = "called"

NextUpdater == BuildMetadata

SpecUpdater == InitUpdater /\ [][NextUpdater]_vars

(***************************************************************************)
(* update_node_metadata (not a dry run) on nodes whose columns differ in   *)
(* their fields and that carry sourceMapping aliases.                      *)
(***************************************************************************)
\* what the PUT of update_node_metadata can do: 200/201, another status, an
\* exception before the request was served, a timeout after it was served
PutOutcomes == {"ok", "refused", "exception", "timeout_served"}

\* the entry appended to self.update_successes after a 200/201 and to
\* self.update_errors and self.failed_updates otherwise
update_entry(o, metadata) ==
    IF o = "ok"
    THEN [list |-> "update_successes",
          column_count |-> Len(metadata.columns),
          source_mapping_count |-> Len(metadata.sourceMapping)]
    ELSE [list |-> "failed_updates",
          status_code |-> CASE o = "refused" -> "status"
                            [] o = "timeout_served" -> "timeout"
                            [] OTHER -> "exception",
          has_columns |-> Len(metadata.columns) > 0,
          has_source_mapping |-> Len(metadata.sourceMapping) > 0]

\* the rest of update_node_metadata after build_proper_metadata
SendMetadata ==
    /\ UNCHANGED <<creatorVars, resolverVars, composerVars, pipelineVars, otherVars>>
    /\ upc = "built"
    /\ upc' = "returned"
    /\ IF proper_metadata.is_none
       THEN /\ update_result' = "True"
            /\ UNCHANGED <<put_sent, target_source_mapping, update_report>>
       ELSE \E o \in PutOutcomes :
            /\ put_sent' = TRUE
            /\ update_result' = IF o = "ok" THEN "True" ELSE "False"
            /\ update_report' = update_entry(o, proper_metadata)
            /\ target_source_mapping' =
                 IF o \in {"ok", "timeout_served"} THEN proper_metadata.sourceMapping
                 ELSE target_source_mapping
    /\ UNCHANGED <<original_node_data, update_mapping, proper_metadata,
                   proper_metadata_again>>

\* the node data that a metadata dict is when it is read as an input: a column
\* without the key 'sources' has no sources
read_back(metadata) ==
    [columns |-> [i \in DOMAIN metadata.columns |->
                    [name |-> metadata.columns[i].name,
                     dataType |-> metadata.columns[i].dataType,
                     nullable |-> metadata.columns[i].nullable,
                     defaultValue |-> metadata.columns[i].defaultValue,
                     sources |-> metadata.columns[i].sources]],
     sourceMapping |-> metadata.sourceMapping]

\* build_proper_metadata called on its own output with the same mapping
BuildAgain ==
    /\ UNCHANGED <<creatorVars, resolverVars, composerVars, pipelineVars, otherVars>>
    /\ upc = "returned"
    /\ ~proper_metadata.is_none
    /\ proper_metadata_again' = build_proper_metadata(read_back(proper_metadata), update_mapping)
    /\ upc' = "rebuilt"
    /\ UNCHANGED <<original_node_data, update_mapping, proper_metadata,
                   target_source_mapping, put_sent, update_result, update_report>>

\* sources with a transform text and at most one column reference
FieldSources == [transform : {Missing, "UPPER(X)"},
                 columnReferences : SeqsOf(ColumnReferences, {0, 1})]

\* columns that differ in their fields
FieldColumns == [name : {Missing, "C1"}, dataType : {Missing, "NUMBER"},
                 nullable : {Missing, "False"}, defaultValue : DefaultValues,
                 sources : SeqsOf(FieldSources, {0, 1})]

\* the aliases of a sourceMapping entry: alias name -> node id
AliasMaps == UNION {[names -> {"a", "b"}] : names \in SUBSET {"SRC1", "SRC2"}}

SourceMappings == SeqsOf([aliases : AliasMaps], {0, 1})

InitMetadata ==
    /\ CreatorIdle
    /\ ResolverIdle
    /\ ComposerIdle
    /\ PipelineIdle
    /\ OthersIdle
    /\ original_node_data \in [columns : SeqsOf(FieldColumns, {0, 1}),
                                sourceMapping : SourceMappings]
    /\ update_mapping \in Mappings
    /\ proper_metadata = NoMetadata
    /\ target_source_mapping = <<>>
    /\ put_sent = FALSE
    /\ update_result = "none"
    /\ update_report = NoReport
    /\ proper_metadata_again = NoMetadata
    /\ upc = "called"

NextMetadata == BuildMetadata \/ SendMetadata \/ BuildAgain

SpecMetadata == InitMetadata /\ [][NextMetadata]_vars

(***************************************************************************)
(* The subgraph composer: update_subgraph.py.  An id read from a JSON file *)
(* or from a response is a string or an integer; [kind, text] holds its    *)
(* kind and its decimal or literal text.                                   *)
(***************************************************************************)
StrId(t) == [kind |-> "str", text |-> t]

IntId(t) == [kind |-> "int", text |-> t]

\* str(x)
py_str(x) == x.text

\* [str(x) for x in (id_list or [])]
_normalize_ids(id_list) == [i \in DOMAIN id_list |-> py_str(id_list[i])]

\* a mapping step that forgets the identifier mapping and passes every
\* member through
RECURSIVE map_nothing(_, _, _)
map_nothing(nodes, mapping, refs) ==
    IF nodes = <<>> THEN [mapped_nodes |-> <<>>, unmapped_nodes |-> <<>>]
    ELSE LET rest == map_nothing(Tail(nodes), mapping, refs) IN
         [mapped_nodes |-> rest.mapped_nodes,
          unmapped_nodes |-> <<py_str(Head(nodes))>> \o rest.unmapped_nodes]

\* the loop of map_and_preserve_all_nodes: the lists mapped_nodes and
\* unmapped_nodes
RECURSIVE map_loop(_, _, _)
map_loop(nodes, mapping, refs) ==
    IF nodes = <<>> THEN [mapped_nodes |-> <<>>, unmapped_nodes |-> <<>>]
    ELSE LET key == py_str(Head(nodes))
             rest == map_loop(Tail(nodes), mapping, refs)
         IN  IF key \in DOMAIN mapping
             THEN [mapped_nodes |-> <<py_str(mapping[key])>> \o rest.mapped_nodes,
                   unmapped_nodes |-> rest.unmapped_nodes]
             ELSE IF refs # EmptyMap /\ key \in DOMAIN refs
             THEN [mapped_nodes |-> <<py_str(refs[key])>> \o rest.mapped_nodes,
                   unmapped_nodes |-> rest.unmapped_nodes]
             ELSE [mapped_nodes |-> rest.mapped_nodes,
                   unmapped_nodes |-> <<key>> \o rest.unmapped_nodes]

\* the pair map_and_preserve_all_nodes returns
map_and_preserve_all_nodes(nodes, mapping, refs) ==
    LET lists == map_loop(nodes, mapping, refs) IN
    [all_nodes |-> lists.mapped_nodes \o lists.unmapped_nodes,
     unmapped_count |-> Len(lists.unmapped_nodes)]

\* a merge that appends every id, seen or not
append_all(merged, ids) == merged \o ids

\* the loop of merge_steps, merged so far and the ids still to come
RECURSIVE merge_loop(_, _)
merge_loop(merged, ids) ==
    IF ids = <<>> THEN merged
    ELSE IF Head(ids) \in Range(merged) THEN merge_loop(merged, Tail(ids))
    ELSE merge_loop(Append(merged, Head(ids)), Tail(ids))

\* existing_steps and mapped_steps are lists of strings here: _normalize_ids
\* has been applied to the first by get_subgraph_steps, and leaves both as
\* they are
merge_steps(existing_steps, mapped_steps) ==
    merge_loop(<<>>, existing_steps \o mapped_steps)

\* what get_subgraph_steps returns: the steps of a 200 response whose body has
\* the 'data' wrapper, otherwise (another status, an exception, a body without
\* 'data') []
get_subgraph_steps(steps, response_ok) ==
    IF response_ok THEN _normalize_ids(steps) ELSE <<>>

\* the steps of the target subgraph after update_subgraph
steps_after_update(steps, new_steps, response_ok) ==
    IF response_ok THEN [i \in DOMAIN new_steps |-> StrId(new_steps[i])] ELSE steps

\* the body of the loop of main for one subgraph; it is run once more when
\* the script is run again
UpdateSubgraph ==
    /\ UNCHANGED <<creatorVars, resolverVars, updaterVars, pipelineVars, otherVars>>
    /\ spc \in {"loaded", "updated"}
    /\ sg_run < 2
    /\ \E get_ok, put_ok \in BOOLEAN :
        LET result == map_and_preserve_all_nodes(original_nodes, sg_node_id_mapping,
                                                 node_references)
            steps == get_subgraph_steps(target_steps, get_ok)
            merged == merge_steps(steps, result.all_nodes)
        IN  /\ sg_all_nodes' = result.all_nodes
            /\ unmapped_count' = result.unmapped_count
            /\ current_steps' = steps
            /\ merged_steps' = merged
            /\ updated_id' = put_ok
            /\ target_steps' = steps_after_update(target_steps, merged, put_ok)
    /\ first_merged' = merged_steps
    /\ sg_run' = sg_run + 1
    /\ spc' = "updated"
    /\ UNCHANGED <<original_nodes, sg_node_id_mapping, node_references>>

\* the ids of a composition file and of the target subgraph
MemberIds == {StrId("a"), StrId("5"), IntId("5")}

LiveIds == {StrId("n"), IntId("5"), StrId("x")}

\* the identifier mappings and the node_references of a composition file
ComposerMappings == UNION {[keys -> {StrId("n"), IntId("5")}] : keys \in SUBSET {"a", "5"}}

ComposerReferences == UNION {[keys -> {StrId("r")}] : keys \in SUBSET {"a"}}

InitComposer ==
    /\ CreatorIdle
    /\ ResolverIdle
    /\ UpdaterIdle
    /\ PipelineIdle
    /\ OthersIdle
    /\ original_nodes \in SeqsOf(MemberIds, 1..MaxMembers)
    /\ sg_node_id_mapping \in ComposerMappings
    /\ node_references \in ComposerReferences
    /\ target_steps \in SeqsOf(LiveIds, 0..MaxLive)
    /\ current_steps = <<>>
    /\ sg_all_nodes = <<>>
    /\ unmapped_count = 0
    /\ merged_steps = <<>>
    /\ updated_id = FALSE
    /\ first_merged = <<>>
    /\ sg_run = 0
    /\ spc = "loaded"

NextComposer == UpdateSubgraph

SpecComposer == InitComposer /\ [][NextComposer]_vars

(***************************************************************************)
(* From the export of a source subgraph to the update of its target: the   *)
(* resolver runs on the steps of the subgraph, its result is written to    *)
(* the export file, and the composer loads that file.                      *)
(***************************************************************************)
\* the position of an id in the order of Python's string comparison
ws_rank(id) ==
    CASE id = "s1" -> 1
      [] id = "u1" -> 2
      [] id = "u2" -> 3
      [] id = "u3" -> 4

\* sorted(list(ids))
RECURSIVE sorted_ids(_)
sorted_ids(ids) ==
    IF ids = {} THEN <<>>
    ELSE LET first == CHOOSE x \in ids : \A y \in ids : ws_rank(x) <= ws_rank(y)
         IN  <<first>> \o sorted_ids(ids \ {first})

\* complete_subgraph['api_migratable_nodes']
exported_api_migratable_nodes == sorted_ids(api_migratable)

\* the new id the target workspace gave to a created node
target_id(id) ==
    CASE id = "s1" -> "t0"
      [] id = "u1" -> "t1"
      [] id = "u2" -> "t2"
      [] id = "u3" -> "t3"

\* get_subgraph_details_and_nodes writes the export file after the resolver
\* returned; load_original_subgraph_compositions reads it, and keeps the
\* composition when its list of migratable nodes is not empty
LoadComposition ==
    /\ UNCHANGED <<creatorVars, resolverVars, updaterVars, pipelineVars, otherVars>>
    /\ rpc = "done"
    /\ spc = "idle"
    /\ exported_api_migratable_nodes # <<>>
    /\ original_nodes' = [i \in DOMAIN exported_api_migratable_nodes |->
                            StrId(exported_api_migratable_nodes[i])]
    /\ node_references' = EmptyMap
    /\ \E created \in SUBSET Range(exported_api_migratable_nodes) :
        sg_node_id_mapping' = [id \in created |-> StrId(target_id(id))]
    /\ \E steps \in {<<>>, <<StrId("x")>>} : target_steps' = steps
    /\ spc' = "loaded"
    /\ UNCHANGED <<current_steps, sg_all_nodes, unmapped_count, merged_steps, updated_id,
                   first_merged, sg_run>>

NextSubgraph ==
    ResolveRound \/ ResolveStop \/ Categorize \/ LoadComposition \/ UpdateSubgraph

SpecSubgraph == InitResolver /\ [][NextSubgraph]_vars

(***************************************************************************)
(* The whole pipeline on one export: the node creator, then the metadata   *)
(* updater (update_all_nodes), then the metadata hack                      *)
(* (run_enhanced_unified_hack), each run once and not as a dry run.        *)
(***************************************************************************)
\* The numbers of requests.put calls update_node_metadata can make for one
\* created node: none when the original node data is missing or
\* build_proper_metadata returns None, else the one PUT of the payload.
update_node_metadata_puts == {0, 1}

\* a hack that repeats the revert when it was refused
puts_with_second_revert == {0, 1, 2, 3}

\* The numbers of requests.put calls apply_enhanced_hack can make for one
\* node: none when the node is not accessible or cannot be fetched, the
\* cosmetic change alone when it is refused, else the change and its revert.
apply_enhanced_hack_puts == {0, 1, 2}

\* "for i, created_node in enumerate(created_nodes, 1)": the next list entry
next_created_node == created_nodes[Cardinality(updated_nodes) + 1]

\* one iteration of the loop of update_all_nodes
UpdateNodeMetadata ==
    /\ UNCHANGED <<resolverVars, updaterVars, composerVars, otherVars>>
    /\ cpc = "done"
    /\ ppc = "run"
    /\ Cardinality(updated_nodes) < Len(created_nodes)
    /\ LET n == next_created_node IN
        /\ \E k \in update_node_metadata_puts :
               put_calls' = MapPut(put_calls, n, calls_of(put_calls, n) + k)
        /\ updated_nodes' = updated_nodes \cup {n}
    /\ UNCHANGED <<all_nodes, dry_run, filtered_nodes, excluded_nodes, dependencies,
                   node_id_mapping, created_nodes, creation_errors, remaining_nodes,
                   ready_nodes, creation_rounds, round_success, created_count,
                   forced_round, api_calls, post_calls, cpc>>
    /\ UNCHANGED <<all_target_nodes, hacked_nodes, ppc>>

\* load_api_migrated_nodes: the created nodes whose name matches the patterns,
\* or every mapped node when the result file lists no created node
api_nodes_choices ==
    IF created_nodes # <<>>
    THEN SUBSET Range(created_nodes)
    ELSE {DOMAIN node_id_mapping}

\* run_enhanced_unified_hack up to consolidate_all_nodes
LoadTargetNodes ==
    /\ UNCHANGED <<creatorVars, resolverVars, updaterVars, composerVars, otherVars>>
    /\ cpc = "done"
    /\ ppc = "run"
    /\ Cardinality(updated_nodes) = Len(created_nodes)
    /\ all_target_nodes' \in api_nodes_choices
    /\ ppc' = "hack"
    /\ UNCHANGED <<updated_nodes, hacked_nodes>>

\* one iteration of the loops of batch_hack_all_nodes
ApplyHack ==
    /\ UNCHANGED <<resolverVars, updaterVars, composerVars, otherVars>>
    /\ ppc = "hack"
    /\ \E n \in all_target_nodes \ hacked_nodes :
        /\ \E k \in apply_enhanced_hack_puts :
               put_calls' = MapPut(put_calls, n, calls_of(put_calls, n) + k)
        /\ hacked_nodes' = hacked_nodes \cup {n}
    /\ UNCHANGED <<all_nodes, dry_run, filtered_nodes, excluded_nodes, dependencies,
                   node_id_mapping, created_nodes, creation_errors, remaining_nodes,
                   ready_nodes, creation_rounds, round_success, created_count,
                   forced_round, api_calls, post_calls, cpc>>
    /\ UNCHANGED <<updated_nodes, all_target_nodes, ppc>>

\* the exports of the pipeline runs: two Hubs that reference nothing or the
\* first Hub, and a Source node
PipelineNodes ==
    {f \in [NodeIds -> NodeData] :
        /\ f["n1"].nodeType = "32" /\ f["n1"].refs \in {{}, {"n1"}}
        /\ f["n2"].nodeType = "32" /\ f["n2"].refs \in {{}, {"n1"}}
        /\ f["n3"].nodeType = "Source" /\ f["n3"].refs = {}}

InitPipeline ==
    /\ all_nodes \in PipelineNodes
    /\ dry_run = FALSE
    /\ filtered_nodes = {}
    /\ excluded_nodes = {}
    /\ dependencies = EmptyMap
    /\ node_id_mapping = EmptyMap
    /\ created_nodes = <<>>
    /\ creation_errors = <<>>
    /\ remaining_nodes = {}
    /\ ready_nodes = {}
    /\ creation_rounds = 0
    /\ round_success = 0
    /\ created_count = 0
    /\ forced_round = FALSE
    /\ api_calls = EmptyMap
    /\ post_calls = EmptyMap
    /\ put_calls = EmptyMap
    /\ cpc = "loaded"
    /\ ResolverIdle
    /\ UpdaterIdle
    /\ ComposerIdle
    /\ updated_nodes = {}
    /\ all_target_nodes = {}
    /\ hacked_nodes = {}
    /\ ppc = "run"
    /\ OthersIdle

NextPipeline ==
    \/ FilterAndAnalyze \/ RoundStart \/ CreateNode \/ RoundEnd \/ LoopExit
    \/ UpdateNodeMetadata \/ LoadTargetNodes \/ ApplyHack

SpecPipeline == InitPipeline /\ [][NextPipeline]_vars

(***************************************************************************)
(* _get_node_details on its own: any sequence of calls in one run, the     *)
(* workspace answering anything each time it is read.  run_migration       *)
(* passes self.migration_config's source workspace_id to every call.       *)
(***************************************************************************)
\* a key that forgets the node id
cache_key_of_workspace(workspace_id, node_id) == workspace_id

\* cache_key = f"{workspace_id}_{node_id}"
cache_key(workspace_id, node_id) == workspace_id \o "_" \o node_id

\* what the workspace can answer to a read: no node (a status other than 200
\* or an exception), or the node_info of a 200 response
FetchResponses == {[ok |-> FALSE, type |-> ""],
                   [ok |-> TRUE, type |-> "Hub"],
                   [ok |-> TRUE, type |-> "Stage"]}

\* the None that _get_node_details returns after a failure
FetchNone == [ok |-> FALSE, type |-> ""]

\* one call of _get_node_details(workspace_id, node_id)
GetNodeDetails ==
    /\ UNCHANGED <<creatorVars, resolverVars, updaterVars, composerVars, pipelineVars>>
    /\ calls_made < MaxCalls
    /\ calls_made' = calls_made + 1
    /\ \E node_id \in FetchNodeIds, response \in FetchResponses :
        LET key == cache_key(fetch_workspace, node_id)
            pair == <<fetch_workspace, node_id>>
        IN  IF key \in DOMAIN key_cache
            THEN /\ last_call' = [workspace |-> fetch_workspace, node_id |-> node_id,
                                  returned |-> key_cache[key], from_cache |-> TRUE]
                 /\ UNCHANGED <<key_cache, fetch_failures, first_fetched, read_again>>
            ELSE /\ read_again' = (read_again \/ pair \in DOMAIN first_fetched)
                 /\ IF response.ok
                    THEN /\ key_cache' = MapPut(key_cache, key, response)
                         /\ first_fetched' =
                              IF pair \in DOMAIN first_fetched THEN first_fetched
                              ELSE MapPut(first_fetched, pair, response)
                         /\ last_call' = [workspace |-> fetch_workspace, node_id |-> node_id,
                                          returned |-> response, from_cache |-> FALSE]
                         /\ UNCHANGED fetch_failures
                    ELSE /\ fetch_failures' = Append(fetch_failures, node_id)
                         /\ last_call' = [workspace |-> fetch_workspace, node_id |-> node_id,
                                          returned |-> FetchNone, from_cache |-> FALSE]
                         /\ UNCHANGED <<key_cache, first_fetched>>
    /\ UNCHANGED <<fetch_workspace, callVars, runnerVars>>

InitFetch ==
    /\ fetch_workspace \in FetchWorkspaces
    /\ key_cache = EmptyMap
    /\ fetch_failures = <<>>
    /\ first_fetched = EmptyMap
    /\ read_again = FALSE
    /\ last_call = NoCall
    /\ calls_made = 0
    /\ CreatorIdle
    /\ ResolverIdle
    /\ UpdaterIdle
    /\ ComposerIdle
    /\ PipelineIdle
    /\ CallsIdle
    /\ RunnerIdle

NextFetch == GetNodeDetails

SpecFetch == InitFetch /\ [][NextFetch]_vars

(***************************************************************************)
(* The remote calls of the engine.  Every call is a blocking requests      *)
(* call; what ends a call on which the remote side never answers is the    *)
(* timeout argument of the call, where the call has one.                   *)
(***************************************************************************)
\* the remote calls of the engine, by what they do
RemoteCalls == {"node_fetch", "subgraph_read", "subgraph_create", "node_create",
                "node_configure", "node_update", "target_subgraph_read",
                "subgraph_update"}

\* the timeout argument of the requests call, in seconds, where there is one
timeout_of(call) ==
    CASE call = "node_fetch" -> [bounded |-> FALSE, seconds |-> 0]
      [] call = "subgraph_read" -> [bounded |-> FALSE, seconds |-> 0]
      [] call = "subgraph_create" -> [bounded |-> FALSE, seconds |-> 0]
      [] call = "node_create" -> [bounded |-> TRUE, seconds |-> 30]
      [] call = "node_configure" -> [bounded |-> TRUE, seconds |-> 30]
      [] call = "node_update" -> [bounded |-> TRUE, seconds |-> 60]
      [] call = "target_subgraph_read" -> [bounded |-> TRUE, seconds |-> 60]
      [] call = "subgraph_update" -> [bounded |-> TRUE, seconds |-> 90]

\* the run enters its next remote call; the remote side answers it or not
StartCall ==
    /\ UNCHANGED <<creatorVars, resolverVars, updaterVars, composerVars, pipelineVars,
                   fetchVars, runnerVars>>
    /\ pending_call = NoRemoteCall
    /\ calls_to_make # <<>>
    /\ pending_call' = Head(calls_to_make)
    /\ calls_to_make' = Tail(calls_to_make)
    /\ remote_stalled' \in BOOLEAN
    /\ UNCHANGED call_results

\* the remote side answers: the call returns a response, good or bad
CallReturns ==
    /\ UNCHANGED <<creatorVars, resolverVars, updaterVars, composerVars, pipelineVars,
                   fetchVars, runnerVars>>
    /\ pending_call # NoRemoteCall
    /\ ~remote_stalled
    /\ \E status \in {"ok", "error_status"} :
        call_results' = Append(call_results, [call |-> pending_call, result |-> status])
    /\ pending_call' = NoRemoteCall
    /\ UNCHANGED <<calls_to_make, remote_stalled>>

\* the timeout of the call expires: requests raises, the except branch of the
\* caller takes it as a failure of this call and the run goes on
CallTimesOut ==
    /\ UNCHANGED <<creatorVars, resolverVars, updaterVars, composerVars, pipelineVars,
                   fetchVars, runnerVars>>
    /\ pending_call # NoRemoteCall
    /\ remote_stalled
    /\ timeout_of(pending_call).bounded
    /\ call_results' = Append(call_results, [call |-> pending_call, result |-> "timeout"])
    /\ pending_call' = NoRemoteCall
    /\ remote_stalled' = FALSE
    /\ UNCHANGED calls_to_make

InitCalls ==
    /\ calls_to_make \in SeqsOf(RemoteCalls, {1, 2, 3})
    /\ pending_call = NoRemoteCall
    /\ remote_stalled = FALSE
    /\ call_results = <<>>
    /\ CreatorIdle
    /\ ResolverIdle
    /\ UpdaterIdle
    /\ ComposerIdle
    /\ PipelineIdle
    /\ FetchIdle
    /\ RunnerIdle

NextCalls == StartCall \/ CallReturns \/ CallTimesOut

\* a call that can return does return
SpecCalls == InitCalls /\ [][NextCalls]_vars /\ WF_vars(NextCalls)

(***************************************************************************)
(* The migration runner: run_migration.main starts each phase as a         *)
(* subprocess (run_script_simple) and looks at its return code.            *)
(***************************************************************************)
\* How a phase script can end: it did its work; it failed logically (its main
\* printed the error and returned: no script calls sys.exit, so the return
\* code is 0); or the process crashed (a return code other than 0, or
\* subprocess.run raised).
ScriptOutcomes == {"ok", "failed", "crashed"}

\* run_script_simple: result.returncode == 0
run_script_simple(outcome) == outcome # "crashed"

\* the mutating calls the phase makes to the target workspace when it does its
\* work: the export creates the subgraph, the creator creates and configures
\* the nodes and the subgraphs, the updater sends the metadata, each unless
\* dry_run; update_subgraph.main never reads dry_run
calls_of_phase(phase) ==
    CASE phase = "export" ->
           IF cfg_dry_run THEN {} ELSE {[phase |-> phase, call |-> "POST subgraph", ids |-> "source"]}
      [] phase = "create" ->
           IF cfg_dry_run THEN {}
           ELSE {[phase |-> phase, call |-> "POST node", ids |-> "real"],
                 [phase |-> phase, call |-> "PUT node", ids |-> "real"]}
      [] phase = "update" ->
           IF cfg_dry_run \/ creation_file = "none" THEN {}
           ELSE {[phase |-> phase, call |-> "PUT node", ids |-> creation_file]}
      [] phase = "subgraph_update" ->
           IF cfg_target_id /\ export_files /\ creation_file # "none"
           THEN {[phase |-> phase, call |-> "PUT subgraph", ids |-> creation_file]}
           ELSE {}
      [] OTHER -> {}

\* the common part of the start of a phase
StartPhase(phase, outcome) ==
    /\ phases_run' = Append(phases_run, phase)
    /\ phases_failed' = IF outcome = "ok" THEN phases_failed ELSE phases_failed \cup {phase}
    /\ target_calls' = IF outcome = "ok" THEN target_calls \cup calls_of_phase(phase)
                        ELSE target_calls

\* Phase 1 and the check for the exported files
RunExport ==
    /\ UNCHANGED <<creatorVars, resolverVars, updaterVars, composerVars, pipelineVars,
                   fetchVars, callVars>>
    /\ rnpc = "export"
    /\ \E outcome \in ScriptOutcomes :
        /\ StartPhase("export", outcome)
        /\ export_files' = (export_files \/ outcome = "ok")
        /\ IF run_script_simple(outcome) /\ export_files'
           THEN rnpc' = "create" /\ UNCHANGED runner_result
           ELSE rnpc' = "done" /\ runner_result' = "False"
    /\ UNCHANGED <<cfg_dry_run, cfg_target_id, creation_file>>

\* Phase 2 and the check for the creation result files
RunCreate ==
    /\ UNCHANGED <<creatorVars, resolverVars, updaterVars, composerVars, pipelineVars,
                   fetchVars, callVars>>
    /\ rnpc = "create"
    /\ \E outcome \in ScriptOutcomes :
        /\ StartPhase("create", outcome)
        /\ creation_file' = IF outcome = "ok"
                             THEN (IF cfg_dry_run THEN "fabricated" ELSE "real")
                             ELSE creation_file
        /\ IF run_script_simple(outcome) /\ creation_file' # "none"
           THEN rnpc' = "update" /\ UNCHANGED runner_result
           ELSE rnpc' = "done" /\ runner_result' = "False"
    /\ UNCHANGED <<cfg_dry_run, cfg_target_id, export_files>>

\* Phase 3
RunUpdate ==
    /\ UNCHANGED <<creatorVars, resolverVars, updaterVars, composerVars, pipelineVars,
                   fetchVars, callVars>>
    /\ rnpc = "update"
    /\ \E outcome \in ScriptOutcomes :
        /\ StartPhase("update", outcome)
        /\ IF run_script_simple(outcome)
           THEN rnpc' = "subgraph_update" /\ UNCHANGED runner_result
           ELSE rnpc' = "done" /\ runner_result' = "False"
    /\ UNCHANGED <<cfg_dry_run, cfg_target_id, export_files, creation_file>>

\* Phase 4: its result changes the messages only
RunSubgraphUpdate ==
    /\ UNCHANGED <<creatorVars, resolverVars, updaterVars, composerVars, pipelineVars,
                   fetchVars, callVars>>
    /\ rnpc = "subgraph_update"
    /\ \E outcome \in ScriptOutcomes : StartPhase("subgraph_update", outcome)
    /\ rnpc' = "cleanup"
    /\ UNCHANGED <<cfg_dry_run, cfg_target_id, export_files, creation_file, runner_result>>

\* Phase 5 and the return of main: success1 and success2 and success3
RunCleanup ==
    /\ UNCHANGED <<creatorVars, resolverVars, updaterVars, composerVars, pipelineVars,
                   fetchVars, callVars>>
    /\ rnpc = "cleanup"
    /\ \E outcome \in ScriptOutcomes : StartPhase("cleanup", outcome)
    /\ runner_result' = "True"
    /\ rnpc' = "done"
    /\ UNCHANGED <<cfg_dry_run, cfg_target_id, export_files, creation_file>>

\* the runner is started in a directory that may hold the files of an
\* earlier run
InitRunner ==
    /\ cfg_dry_run \in BOOLEAN
    /\ cfg_target_id \in BOOLEAN
    /\ export_files \in BOOLEAN
    /\ creation_file \in {"none", "real", "fabricated"}
    /\ phases_run = <<>>
    /\ phases_failed = {}
    /\ target_calls = {}
    /\ runner_result = "running"
    /\ rnpc = "export"
    /\ CreatorIdle
    /\ ResolverIdle
    /\ UpdaterIdle
    /\ ComposerIdle
    /\ PipelineIdle
    /\ FetchIdle
    /\ CallsIdle

NextRunner == RunExport \/ RunCreate \/ RunUpdate \/ RunSubgraphUpdate \/ RunCleanup

SpecRunner == InitRunner /\ [][NextRunner]_vars

(***************************************************************************)
(* Properties of the node creator.                                         *)
(***************************************************************************)
Succ(S) == S \cup UNION {dependencies[x] : x \in S}

RECURSIVE Closure(_, _)
Closure(S, k) == IF k = 0 THEN S ELSE Closure(Succ(S), k - 1)

\* no node of the dependency graph reaches itself
Acyclic ==
    \A n \in DOMAIN dependencies :
        n \notin Closure(dependencies[n], Cardinality(NodeIds))

error_ids == {creation_errors[i].original_id : i \in DOMAIN creation_errors}

\* every creation attempted so far left an entry in node_id_mapping
NoCreationFailed ==
    \A n \in DOMAIN api_calls :
        api_calls[n].outcome = DryOutcome \/ writes_mapping(api_calls[n].outcome)

\* C1: after create_nodes_in_dependency_order returns in real mode, every
\* input node is a key of node_id_mapping or the original_id of an entry of
\* creation_errors, and never both.
C1_MappedXorError ==
    (cpc = "done" /\ ~dry_run) =>
        \A n \in filtered_nodes :
            (n \in DOMAIN node_id_mapping) # (n \in error_ids)

\* C2: when create_nodes_in_dependency_order has returned, a creation
\* attempt has been made for every node of its input set.
C2_AllAttempted ==
    cpc = "done" => filtered_nodes \subseteq DOMAIN api_calls

\* C3: on an acyclic dependency graph and while no creation has failed,
\* every node was created in a round that was not forced and with the new
\* ids of all its dependencies as its predecessor list.
C3_CreatedAfterDependencies ==
    (Acyclic /\ NoCreationFailed) =>
        \A n \in DOMAIN api_calls :
            /\ ~api_calls[n].forced
            /\ dependencies[n] \subseteq DOMAIN node_id_mapping
            /\ api_calls[n].predecessor_ids =
                 {node_id_mapping[d] : d \in dependencies[n]}

\* a run that ended with a chain n -> d -> e created in dependency order
C3_Witness ==
    /\ cpc = "done"
    /\ Acyclic
    /\ NoCreationFailed
    /\ DOMAIN api_calls = NodeIds
    /\ \E n, d \in NodeIds :
        /\ d \in dependencies[n]
        /\ dependencies[d] # {}
        /\ Cardinality(api_calls[n].predecessor_ids) = Cardinality(dependencies[n])

\* C6: the filter splits the loaded nodes in two, a node being included
\* exactly when its normalized type is allowed; only included nodes are
\* passed to create_node_via_api, hence never a Source or Stage node
\* (raw types "Source", "Stage", "36", "205").
C6_OnlyAllowedTypesCreated ==
    /\ cpc # "loaded" =>
        /\ filtered_nodes \cap excluded_nodes = {}
        /\ filtered_nodes \cup excluded_nodes = DOMAIN all_nodes
        /\ \A n \in DOMAIN all_nodes :
             n \in filtered_nodes <=>
                normalized_type(all_nodes[n].nodeType) \in allowed_types
    /\ DOMAIN api_calls \subseteq filtered_nodes
    /\ \A n \in DOMAIN api_calls :
         all_nodes[n].nodeType \notin {"Source", "Stage", "36", "205"}

\* a finished run in which a type-36 and a type-205 node were excluded and
\* the one included node was passed to create_node_via_api
C6_Witness ==
    /\ cpc = "done"
    /\ DOMAIN api_calls = filtered_nodes
    /\ filtered_nodes # {}
    /\ \E a, b \in excluded_nodes :
        all_nodes[a].nodeType = "36" /\ all_nodes[b].nodeType = "205"

(***************************************************************************)
(* Properties of the dependency resolver.                                  *)
(***************************************************************************)
\* the well-formed ids a node of the workspace refers to, by a column
\* reference or by an alias; a node that does not answer refers to none
references(n) ==
    IF n \in DOMAIN remote /\ remote[n].ok
    THEN {t \in remote[n].col_refs \cup remote[n].alias_ids : has_dash(t) /\ id_len(t) > 30}
    ELSE {}

\* the ids within k references of the set S
RECURSIVE WithinRefs(_, _)
WithinRefs(S, k) ==
    IF k = 0 THEN S ELSE WithinRefs(S \cup UNION {references(n) : n \in S}, k - 1)

manual_ids == {m.node_id : m \in manual_required}

resolve_returned == rpc = "done"

loop_ended == rpc \in {"categorize", "done"}

\* C4: in the output of _resolve_all_dependencies every discovered node
\* that was fetched and is of type Source or Stage is in manual_required
\* and not in api_migratable.
C4_SourceStageManual ==
    resolve_returned =>
        \A n \in all_discovered_nodes :
            (n \in DOMAIN node_cache /\ node_cache[n].type \in {"Source", "Stage"}) =>
                n \in manual_ids /\ n \notin api_migratable

\* C5: the three outputs of the classifier are pairwise disjoint, their
\* union is the discovered set, and a node whose fetch failed is in
\* failed_analysis and in neither of the other two.
C5_OutputsPartitionDiscovered ==
    resolve_returned =>
        /\ api_migratable \cap manual_ids = {}
        /\ api_migratable \cap failed_analysis = {}
        /\ manual_ids \cap failed_analysis = {}
        /\ api_migratable \cup manual_ids \cup failed_analysis = all_discovered_nodes
        /\ \A n \in all_discovered_nodes :
             (n \in DOMAIN remote /\ ~remote[n].ok) =>
                 /\ n \in failed_analysis
                 /\ n \notin api_migratable \cup manual_ids

\* C7: whatever the reference graph, cycles and self-references included,
\* the loop of _resolve_all_dependencies runs at most max_depth rounds and
\* no node is fetched and expanded more than once in a run.
C7_CycleBoundedRounds ==
    /\ rounds_run <= max_depth
    /\ \A n \in DOMAIN expand_count : expand_count[n] <= 1
    /\ DOMAIN expand_count = processed_nodes
    /\ processed_nodes \subseteq all_discovered_nodes

\* a run that returned on a workspace where two nodes refer to each other,
\* both discovered and both expanded once
C7_Witness ==
    /\ resolve_returned
    /\ \E a, b \in processed_nodes :
        /\ a # b
        /\ b \in references(a)
        /\ a \in references(b)
        /\ expand_count[a] = 1
        /\ expand_count[b] = 1

\* C8: when the loop has ended, the discovered set is the seeds together
\* with every well-formed id within max_depth references of a seed through
\* nodes that answered (every node nearer than max_depth having been read);
\* when the loop ended before the depth bound, every discovered node has
\* been expanded and the set is closed under the references.
C8_DiscoveredIsReachable ==
    loop_ended =>
        /\ WithinRefs(initial_nodes, max_depth - 1) \subseteq DOMAIN remote
        /\ all_discovered_nodes = WithinRefs(initial_nodes, max_depth)
        /\ stopped_by # "depth_bound" =>
             /\ processed_nodes = all_discovered_nodes
             /\ \A n \in all_discovered_nodes : references(n) \subseteq all_discovered_nodes

\* a run whose loop ended before the depth bound, in which a seed reached a
\* new node by an alias only and its reference to a short id was dropped
C8_Witness ==
    /\ resolve_returned
    /\ stopped_by = "no_new_dependencies"
    /\ \E n \in initial_nodes, t \in all_discovered_nodes \ initial_nodes :
        /\ remote[n].ok
        /\ t \in remote[n].alias_ids \ remote[n].col_refs
        /\ "s1" \in remote[n].col_refs
        /\ "s1" \notin all_discovered_nodes

\* C9: on the same workspace and with the same seeds, the second run of
\* _resolve_all_dependencies on an instance, the node cache kept, ends with
\* the discovered set of the first run.
C9_SecondRunSameDiscovered ==
    (run_no = 2 /\ loop_ended) => all_discovered_nodes = first_discovered

\* a second run that returned, having found a node beyond the seeds from
\* the cache and having asked again for a node that does not answer
C9_Witness ==
    /\ run_no = 2
    /\ resolve_returned
    /\ first_discovered # initial_nodes
    /\ \E n \in all_discovered_nodes :
        n \in DOMAIN failed_node_downloads /\ failed_node_downloads[n] >= 3

(***************************************************************************)
(* Properties of the metadata updater.                                     *)
(***************************************************************************)
\* the column references of a source that have a node id and a column id
kept_references(col_refs) ==
    SelectSeq(col_refs, LAMBDA r : r.nodeID \notin {None, ""} /\ r.columnID \notin {None, ""})

metadata_built == upc = "built" /\ ~proper_metadata.is_none

\* C10: the column references kept in the output of build_proper_metadata
\* are, source by source and in order, those of the input that have a node
\* id and a column id; the node id of each is the mapped id when the
\* original id is a key of the mapping and the original id otherwise, and
\* its column id is unchanged.
C10_ReferencesRemapped ==
    metadata_built =>
        /\ DOMAIN proper_metadata.columns = DOMAIN original_node_data.columns
        /\ \A i \in DOMAIN original_node_data.columns :
            LET col == original_node_data.columns[i]
                out_col == proper_metadata.columns[i]
            IN  /\ DOMAIN out_col.sources = DOMAIN col.sources
                /\ \A j \in DOMAIN col.sources :
                    LET orig == kept_references(col.sources[j].columnReferences)
                        out == out_col.sources[j].columnReferences
                    IN  /\ Len(out) = Len(orig)
                        /\ \A k \in DOMAIN orig :
                            /\ out[k].columnID = orig[k].columnID
                            /\ orig[k].nodeID \in DOMAIN update_mapping =>
                                  out[k].nodeID = update_mapping[orig[k].nodeID]
                            /\ orig[k].nodeID \notin DOMAIN update_mapping =>
                                  out[k].nodeID = orig[k].nodeID

\* metadata built for a node with a source whose two references are kept,
\* one to a mapped and one to an unmapped node, and with another source
\* that lost a reference
C10_Witness ==
    /\ metadata_built
    /\ \E i \in DOMAIN proper_metadata.columns :
        LET col == original_node_data.columns[i]
            out_col == proper_metadata.columns[i]
        IN  /\ out_col.has_sources
            /\ Len(out_col.sources[1].columnReferences) = 2
            /\ \E k, l \in 1..2 :
                LET orig == col.sources[1].columnReferences
                    out == out_col.sources[1].columnReferences
                IN  /\ orig[k].nodeID \in DOMAIN update_mapping
                    /\ out[k].nodeID # orig[k].nodeID
                    /\ orig[l].nodeID \notin DOMAIN update_mapping
                    /\ out[l].nodeID = orig[l].nodeID
    /\ \E i \in DOMAIN proper_metadata.columns :
        /\ proper_metadata.columns[i].has_sources
        /\ Len(proper_metadata.columns[i].sources[1].columnReferences)
             < Len(original_node_data.columns[i].sources[1].columnReferences)

(***************************************************************************)
(* Properties of the subgraph composer.                                    *)
(***************************************************************************)
subgraph_updated == spc = "updated"

no_duplicate(list) == \A i, j \in DOMAIN list : i # j => list[i] # list[j]

first_index(list, x) == CHOOSE i \in DOMAIN list : list[i] = x /\ \A j \in 1..(i - 1) : list[j] # x

\* the live members come first in list, in the order of their first
\* occurrence among the live members
live_members_first(list, live) ==
    \A i, j \in DOMAIN list :
        (i < j /\ list[j] \in Range(live)) =>
            /\ list[i] \in Range(live)
            /\ first_index(live, list[i]) < first_index(live, list[j])

\* the image of an original member by the identifier mapping alone
mapped_or_unchanged(member) ==
    IF member.text \in DOMAIN sg_node_id_mapping
    THEN sg_node_id_mapping[member.text].text
    ELSE member.text

\* the image of an original member: by the identifier mapping, else by the
\* node_references of the composition, else the member itself
mapped_referenced_or_unchanged(member) ==
    IF member.text \in DOMAIN sg_node_id_mapping
    THEN sg_node_id_mapping[member.text].text
    ELSE IF member.text \in DOMAIN node_references
    THEN node_references[member.text].text
    ELSE member.text

\* C11: when the composer runs a second time with the first run's output as
\* the live membership, and the same original members and mapping, the
\* member list it builds is the first run's output.
C11_SecondRunSameMembers ==
    (sg_run = 2 /\ current_steps = first_merged) => merged_steps = first_merged

\* a second run that read back the three members the first run had written:
\* a live member, a mapped and an unmapped original member
C11_Witness ==
    /\ sg_run = 2
    /\ updated_id
    /\ current_steps = first_merged
    /\ Len(first_merged) = 3
    /\ unmapped_count = 1
    /\ \E i \in DOMAIN original_nodes : original_nodes[i].text \in DOMAIN sg_node_id_mapping

\* C12 as stated: the member list has no duplicate, holds exactly the live
\* members followed by the image of each original member, the mapped id or
\* else the unchanged id, keeps the order of the live members, and the
\* count of the members without a mapping entry is reported.
C12_MembersLiveThenMapped ==
    subgraph_updated =>
        /\ no_duplicate(merged_steps)
        /\ Range(merged_steps) =
             Range(current_steps) \cup {mapped_or_unchanged(m) : m \in Range(original_nodes)}
        /\ live_members_first(merged_steps, current_steps)
        /\ unmapped_count =
             Cardinality({i \in DOMAIN original_nodes :
                            original_nodes[i].text \notin DOMAIN sg_node_id_mapping})

\* C12 as amended: the image of an original member without a mapping entry
\* is its node_references value when it has one and the unchanged id
\* otherwise, and the count is that of the members with neither entry.
C12_MembersLiveThenMappedOrReferenced ==
    subgraph_updated =>
        /\ no_duplicate(merged_steps)
        /\ Range(merged_steps) =
             Range(current_steps)
             \cup {mapped_referenced_or_unchanged(m) : m \in Range(original_nodes)}
        /\ live_members_first(merged_steps, current_steps)
        /\ unmapped_count =
             Cardinality({i \in DOMAIN original_nodes :
                            /\ original_nodes[i].text \notin DOMAIN sg_node_id_mapping
                            /\ original_nodes[i].text \notin DOMAIN node_references})

\* an update whose member list is a live member, then the node_references
\* value of one original member, then another original member unchanged
C12_Witness ==
    /\ subgraph_updated
    /\ sg_run = 1
    /\ current_steps = <<"x">>
    /\ merged_steps = <<"x", "r", "5">>
    /\ unmapped_count = 1

\* C13: every id the update adds to the target subgraph is the image,
\* mapped or passed through, of a node of the step list of the original
\* source subgraph.
C13_OnlyOriginalStepsAdded ==
    subgraph_updated =>
        \A id \in Range(merged_steps) \ Range(current_steps) :
            \E step \in initial_nodes : id = mapped_or_unchanged(StrId(step))

\* C27: a step of the subgraph updater never removes a member from the
\* target subgraph: every id that is a member before the step is a member
\* after it, whatever the live read and the write return.
C27_UpdateKeepsMembers ==
    [][\A i \in DOMAIN target_steps :
          \E j \in DOMAIN target_steps' : py_str(target_steps'[j]) = py_str(target_steps[i])]_vars

(***************************************************************************)
(* Further properties of the dependency resolver.                          *)
(***************************************************************************)
\* the nodes read so far that did not answer with a node
failed_fetches == {id \in DOMAIN remote : ~remote[id].ok}

\* C14: a node whose fetch failed is recorded in failed_node_downloads, is
\* not returned or cached as a node, stays in the discovered set and adds
\* no reference; the failure does not stop the round: after k rounds every
\* node within k - 1 references of a seed has been processed.
C14_FailedFetchIsRecordedAndSkipped ==
    /\ \A id \in failed_fetches :
        /\ id \in DOMAIN failed_node_downloads
        /\ failed_node_downloads[id] >= 1
        /\ id \notin DOMAIN node_cache
        /\ ~get_node_details(node_cache, remote, id).ok
        /\ _extract_dependencies_from_node(get_node_details(node_cache, remote, id)) = {}
        /\ id \in all_discovered_nodes \cup first_discovered
    /\ rounds_run >= 1 =>
        /\ WithinRefs(initial_nodes, rounds_run - 1) \subseteq processed_nodes
        /\ all_discovered_nodes = WithinRefs(initial_nodes, rounds_run)
                                   \/ rpc \in {"categorize", "done"}

\* a first round with two pending seeds: one did not answer, the other was
\* expanded and brought a new node
C14_Witness ==
    /\ rounds_run = 1
    /\ run_no = 1
    /\ \E failed, other \in initial_nodes :
        /\ failed \in failed_fetches
        /\ failed \in processed_nodes
        /\ other \in processed_nodes
        /\ references(other) \ initial_nodes # {}
        /\ references(other) \subseteq all_discovered_nodes

(***************************************************************************)
(* Further properties of the node creator.                                 *)
(***************************************************************************)
\* C15: during a run of the node creator node_id_mapping only grows: no
\* entry is removed, no value is overwritten, a step writes at most one new
\* entry, and create_node_via_api is called for a node at most once.
C15_MappingWriteOnce ==
    [][/\ DOMAIN node_id_mapping \subseteq DOMAIN node_id_mapping'
       /\ \A k \in DOMAIN node_id_mapping : node_id_mapping'[k] = node_id_mapping[k]
       /\ Cardinality(DOMAIN node_id_mapping' \ DOMAIN node_id_mapping) <= 1
       /\ api_calls' # api_calls =>
            \E n \in NodeIds \ DOMAIN api_calls :
                DOMAIN api_calls' = DOMAIN api_calls \cup {n}]_vars

\* a real run that ended with an entry for each of three nodes
C15_Witness ==
    /\ cpc = "done"
    /\ ~dry_run
    /\ Cardinality(DOMAIN node_id_mapping) = 3
    /\ Cardinality(DOMAIN api_calls) = 3

\* the hack has iterated over all its target nodes: the pipeline has ended
pipeline_ended == ppc = "hack" /\ hacked_nodes = all_target_nodes

C21_CacheHitIsFirstFetch ==
    /\ last_call.from_cache =>
          LET pair == <<last_call.workspace, last_call.node_id>> IN
          /\ pair \in DOMAIN first_fetched
          /\ last_call.returned = first_fetched[pair]
    /\ ~read_again

\* C21 happens: two nodes are cached with different values, a fetch has failed,
\* and the last call was answered from the cache.
C21_Witness ==
    /\ last_call.from_cache
    /\ fetch_failures # <<>>
    /\ \E a, b \in DOMAIN first_fetched : first_fetched[a] # first_fetched[b]

\* update_node_metadata has returned success
update_succeeded == upc \in {"returned", "rebuilt"} /\ update_result = "True"

\* the source mapping with every alias value that is a key of the mapping
\* replaced by its new id, every other value and every alias name kept
aliases_remapped(source_mapping) ==
    /\ \A i \in DOMAIN original_node_data.sourceMapping :
        \A alias_name \in DOMAIN original_node_data.sourceMapping[i].aliases :
            LET original_node_id == original_node_data.sourceMapping[i].aliases[alias_name] IN
            /\ i \in DOMAIN source_mapping
            /\ alias_name \in DOMAIN source_mapping[i].aliases
            /\ source_mapping[i].aliases[alias_name] =
                 IF original_node_id \in DOMAIN update_mapping
                 THEN update_mapping[original_node_id]
                 ELSE original_node_id
    /\ \A i \in DOMAIN source_mapping :
        /\ i \in DOMAIN original_node_data.sourceMapping
        /\ DOMAIN source_mapping[i].aliases
             \subseteq DOMAIN original_node_data.sourceMapping[i].aliases

\* C22: after a successful metadata update of any created node, also of one
\* that has aliases and no columns, the node in the target holds the aliases
\* of the original with every value that is a key of node_id_mapping rewritten
\* to its new id and every other value and every alias name unchanged.
C22_AliasesRemappedForEveryNode ==
    update_succeeded => aliases_remapped(target_source_mapping)

\* C23: the output of build_proper_metadata has the columns of the input in
\* the same order, as many sources per column and column references per
\* source, and each column's name, data type, nullability and default value
\* and each source's transform text as the input has them (a field the input
\* does not have is not compared).
C23_OnlyNodeIdsChange ==
    metadata_built =>
        /\ DOMAIN proper_metadata.columns = DOMAIN original_node_data.columns
        /\ \A i \in DOMAIN original_node_data.columns :
            LET col == original_node_data.columns[i]
                out_col == proper_metadata.columns[i]
            IN  /\ col.name # Missing => out_col.name = col.name
                /\ col.dataType # Missing => out_col.dataType = col.dataType
                /\ col.nullable # Missing => out_col.nullable = col.nullable
                /\ out_col.defaultValue = col.defaultValue
                /\ DOMAIN out_col.sources = DOMAIN col.sources
                /\ \A j \in DOMAIN col.sources :
                    /\ col.sources[j].transform # Missing =>
                          out_col.sources[j].transform = col.sources[j].transform
                    /\ Len(out_col.sources[j].columnReferences)
                         = Len(col.sources[j].columnReferences)

\* the node ids without an entry in the mapping that the node refers to, by a
\* column reference that has a node id and a column id or by an alias
unmapped_node_ids ==
    {id \in UNION {UNION {{r.nodeID : r \in Range(kept_references(
                                original_node_data.columns[i].sources[j].columnReferences))} :
                          j \in DOMAIN original_node_data.columns[i].sources} :
                   i \in DOMAIN original_node_data.columns}
            \cup UNION {Range(original_node_data.sourceMapping[i].aliases) :
                        i \in DOMAIN original_node_data.sourceMapping} :
        id \notin DOMAIN update_mapping}

\* the node ids that a column reference of the output carries a mark for: a
\* key besides 'nodeID' and 'columnID'
marked_node_ids ==
    UNION {UNION {{proper_metadata.columns[i].sources[j].columnReferences[k].nodeID :
                     k \in {x \in DOMAIN proper_metadata.columns[i].sources[j].columnReferences :
                              DOMAIN proper_metadata.columns[i].sources[j].columnReferences[x]
                                # {"nodeID", "columnID"}}} :
                  j \in DOMAIN proper_metadata.columns[i].sources} :
           i \in DOMAIN proper_metadata.columns}

\* the node ids named by the entry update_node_metadata recorded
reported_node_ids ==
    {update_report[f] : f \in {g \in DOMAIN update_report : g \in {"unresolved", "node_ids"}}}

\* C24: when update_node_metadata has sent the metadata of a node, every node
\* id that the node refers to and that has no entry in the mapping is marked
\* in the output or named in the entry the updater recorded.
C24_UnmappedReferencesAreReported ==
    (upc \in {"returned", "rebuilt"} /\ put_sent) =>
        \A id \in unmapped_node_ids : id \in marked_node_ids \cup reported_node_ids

\* C25: every remote call the run enters ends, also when the remote side never
\* answers it, and the run then makes its remaining calls.
C25_EveryCallEnds ==
    [](pending_call # NoRemoteCall => <>(pending_call = NoRemoteCall))

\* C26: with dry_run True no phase the runner starts makes a POST or a PUT
\* call to the target workspace, and no fabricated id is written to a target
\* subgraph.
C26_DryRunWritesNothing ==
    cfg_dry_run =>
        /\ target_calls = {}
        /\ \A c \in target_calls : ~(c.call = "PUT subgraph" /\ c.ids = "fabricated")

\* C28: after a real run of the node creator every key of node_id_mapping has
\* exactly one entry in created_nodes, with the new id of the mapping.
C28_MappedNodesAreCreatedNodes ==
    (cpc = "done" /\ ~dry_run) =>
        \A n \in DOMAIN node_id_mapping :
            /\ Cardinality({i \in DOMAIN created_nodes : created_nodes[i] = n}) = 1
            /\ node_id_mapping[n] = new_node_id(n)

\* the column references of a metadata dict, column by column and source by source
references_of(metadata) ==
    [i \in DOMAIN metadata.columns |->
        [j \in DOMAIN metadata.columns[i].sources |->
            metadata.columns[i].sources[j].columnReferences]]

\* no new id of the mapping is an original id of the mapping
new_ids_are_fresh == Range(update_mapping) \cap DOMAIN update_mapping = {}

\* C29: when no new id is also an original id, build_proper_metadata of its
\* own output with the same mapping gives the same column references and the
\* same aliases as the first call.
C29_RemapIsIdempotent ==
    (upc = "rebuilt" /\ new_ids_are_fresh) =>
        /\ references_of(proper_metadata_again) = references_of(proper_metadata)
        /\ proper_metadata_again.sourceMapping = proper_metadata.sourceMapping

\* C29 happens: the second call has been made on an output in which a column
\* reference and an alias were remapped and another alias was not.
C29_Witness ==
    /\ upc = "rebuilt"
    /\ new_ids_are_fresh
    /\ \E i \in DOMAIN original_node_data.columns :
        \E j \in DOMAIN original_node_data.columns[i].sources :
        \E k \in DOMAIN original_node_data.columns[i].sources[j].columnReferences :
            LET r == original_node_data.columns[i].sources[j].columnReferences[k] IN
            /\ r.nodeID \in DOMAIN update_mapping
            /\ r.columnID = "c1"
            /\ proper_metadata_again.columns[i].sources[j].columnReferences[1].nodeID
                 = update_mapping[r.nodeID]
    /\ \E i \in DOMAIN original_node_data.sourceMapping :
        \E x, y \in DOMAIN original_node_data.sourceMapping[i].aliases :
            LET aliases == original_node_data.sourceMapping[i].aliases IN
            /\ aliases[x] \in DOMAIN update_mapping
            /\ aliases[y] \notin DOMAIN update_mapping
            /\ proper_metadata_again.sourceMapping[i].aliases[x] = update_mapping[aliases[x]]
            /\ proper_metadata_again.sourceMapping[i].aliases[y] = aliases[y]

\* the phases in the order of the runner
PhaseOrder == <<"export", "create", "update", "subgraph_update", "cleanup">>

\* C30: the runner starts the phases in the order export, create, update,
\* subgraph update; a phase is started only after every earlier phase ended
\* successfully, so after a logical failure of the export, create or update
\* phase no later phase is started and the result of the runner is failure;
\* a failure of the subgraph update or of the cleanup does not change the
\* result.
C30_FailedPhaseStopsTheRun ==
    /\ \A i \in DOMAIN phases_run : phases_run[i] = PhaseOrder[i]
    /\ \A i \in DOMAIN phases_run :
          phases_run[i] \in {"export", "create", "update"} /\ phases_run[i] \in phases_failed
             => /\ Len(phases_run) = i
                /\ runner_result \in {"running", "False"}
                /\ rnpc = "done" => runner_result = "False"
    /\ (rnpc = "done" /\ phases_failed \cap {"export", "create", "update"} = {}
          /\ Len(phases_run) = 5)
         => runner_result = "True"

\* C17: whatever the dependency graph and the failures, every round of
\* create_nodes_in_dependency_order removes a node from the remaining set:
\* between rounds the rounds run and the nodes remaining are together at
\* most the nodes handed in, and the loop never stops for the safety bound.
C17_EveryRoundRemovesANode ==
    /\ creation_rounds <= Cardinality(filtered_nodes)
    /\ cpc \in {"loop", "done"} =>
         creation_rounds + Cardinality(remaining_nodes) <= Cardinality(filtered_nodes)
    /\ cpc = "done" => creation_rounds < max_rounds

\* a run of two rounds for three nodes, one of them forced and one with a
\* creation that failed, that left no node remaining
C17_Witness ==
    /\ cpc = "done"
    /\ remaining_nodes = {}
    /\ creation_rounds = 2
    /\ Cardinality(filtered_nodes) = 3
    /\ \E n, m \in DOMAIN api_calls :
        /\ api_calls[n].forced
        /\ ~returns_result(api_calls[m].outcome)

\* the remaining nodes with the fewest dependencies not yet mapped
fewest_unmapped ==
    {n \in remaining_nodes :
        \A m \in remaining_nodes :
            Cardinality(dependencies[n] \ DOMAIN node_id_mapping)
                <= Cardinality(dependencies[m] \ DOMAIN node_id_mapping)}

no_node_ready ==
    \A n \in remaining_nodes : dependencies[n] \ DOMAIN node_id_mapping # {}

\* C18: a round that starts with no remaining node ready takes exactly the
\* remaining nodes with the fewest unmapped dependencies; each of them is
\* passed to create_node_via_api, with the new ids of its dependencies
\* mapped at that time, before the round ends.
C18_ForcedRoundTakesFewestUnmapped ==
    [][/\ (cpc = "loop" /\ cpc' = "create" /\ no_node_ready) =>
            (forced_round' /\ ready_nodes' = fewest_unmapped)
       /\ (forced_round /\ api_calls' # api_calls) =>
            \E n \in ready_nodes :
                /\ DOMAIN api_calls' = DOMAIN api_calls \cup {n}
                /\ api_calls'[n].forced
                /\ api_calls'[n].predecessor_ids =
                     {node_id_mapping[d] : d \in dependencies[n] \cap DOMAIN node_id_mapping}
                /\ ready_nodes' = ready_nodes \ {n}
       /\ (forced_round /\ cpc = "create" /\ cpc' # "create") => ready_nodes = {}]_vars

\* the end of a forced round that took two nodes, one created with the new
\* id of the other, and left a node with more unmapped dependencies
C18_Witness ==
    /\ cpc = "create"
    /\ forced_round
    /\ ready_nodes = {}
    /\ remaining_nodes # {}
    /\ \E n, m \in DOMAIN api_calls :
        /\ n # m
        /\ api_calls[n].forced
        /\ api_calls[m].forced
        /\ m \in DOMAIN node_id_mapping
        /\ node_id_mapping[m] \in api_calls[n].predecessor_ids

\* create_node_via_api returned None for the node
creation_failed(n) == n \in DOMAIN api_calls /\ ~returns_result(api_calls[n].outcome)

\* C19: every id of a predecessor list passed to create_node_via_api is the
\* new id of a dependency of the node that is in the migratable input set,
\* is not excluded, and whose creation did not fail.
C19_PredecessorsAreCreatedDependencies ==
    \A n \in DOMAIN api_calls :
        \A p \in api_calls[n].predecessor_ids :
            \E d \in dependencies[n] \cap DOMAIN node_id_mapping :
                /\ node_id_mapping[d] = p
                /\ d \in filtered_nodes
                /\ d \notin excluded_nodes
                /\ ~creation_failed(d)

\* C20: the dependency list of a migratable node A holds every other
\* migratable node that A refers to by a column reference or by a
\* source-mapping alias.
C20_DependenciesIncludeAliases ==
    cpc = "loop" =>
        \A a \in filtered_nodes :
            \A b \in filtered_nodes \ {a} :
                (b \in all_nodes[a].refs \/ b \in all_nodes[a].aliases) =>
                    b \in dependencies[a]

====
